---- MODULE Spec2Model ----
(***************************************************************************)
(* The HTTP/1.1 protocol engine of src/src/h1/mod.rs: the shared Inner,     *)
(* the engine future Connection::poll with the four ConnectionPoll tasks,   *)
(* the handles (SendRequest, ResponseFuture, SendStream, RecvStream through *)
(* RecvReader and the limiters of limit.rs) and the BodyReader of body.rs   *)
(* that the caller reads a response through.                                *)
(*                                                                          *)
(* A byte is an integer.  CR = 13 and LF = 10; the first byte of a response *)
(* head stands for its status line and header lines (HdrLen, HdrClose,      *)
(* HdrNone, HdrBad); the bytes of request heads, request chunks and         *)
(* response bodies are numbered so that each is distinct; 0 is the byte     *)
(* Vec::resize pads with.                                                   *)
(***************************************************************************)
EXTENDS Integers, Sequences, FiniteSets, TLC

\* ------------------------------------------------------------------ bounds
MaxReq == 2      \* send_request calls on the connection
MaxChunks == 1   \* send_data calls on one SendStream
MaxData == 1     \* bytes in one send_data payload
MaxTx == 4       \* bytes the transport accepts over a run
HeadLen == 2     \* bytes of a serialized request head
BodyLen == 2     \* bytes of the response body the peer sends
MaxGot == 3      \* bytes a caller takes from one response body
MaxResolves == 2 \* resolve_deferred calls on one body
MaxChunk == 3    \* bytes of one chunk that poll_data returns
MaxChunks2 == 2  \* chunks of one H2 body
MaxHeaders == 2  \* header lines a caller sets on one request
MaxSent == 3     \* body bytes the server sends before it closes
MaxLine == 4     \* characters of a header line
MaxAdds == 3     \* add_header calls on one list
MaxWire == 5     \* bytes of a response the peer sends
MaxCallers == 2  \* threads calling block_on, and threads calling spawn
MaxZeros == 2    \* reads returning 0 that are counted on one body
MaxLength == 2   \* the number in a length header line

\* RECV_BODY_SIZE (mod.rs:20) and BUF_SIZE (body.rs:23) are 16_384 in the
\* source; the model scales both to two bytes, which keeps the relation
\* BUF_SIZE = RECV_BODY_SIZE and lets a body need more than one fill.
RECV_BODY_SIZE == 2
BUF_SIZE == 2

CR == 13
LF == 10
HdrLen == 72     \* a head with "Content-Length: 2"
HdrClose == 67   \* a head with "Content-Length: 2" and "Connection: close"
HdrNone == 69    \* a head with no length header
HdrBad == 33     \* a head that does not parse
END_OF_HEADER == <<CR, LF, CR, LF>>

Seqs == 0 .. (MaxReq - 1)
Min(a, b) == IF a < b THEN a ELSE b
Take(s, n) == SubSeq(s, 1, Min(n, Len(s)))
Drop(s, n) == SubSeq(s, Min(n, Len(s)) + 1, Len(s))
RECURSIVE Zeros(_)
Zeros(n) == IF n <= 0 THEN <<>> ELSE <<0>> \o Zeros(n - 1)
\* Vec::resize(n, 0)
Resize(s, n) == IF Len(s) >= n THEN Take(s, n) ELSE s \o Zeros(n - Len(s))
IsPrefix(s, t) == Len(s) <= Len(t) /\ s = Take(t, Len(s))
\* F of x, x evaluated once (`let v = x; F(v)`)
Let(F(_), x) == CHOOSE y \in {F(v) : v \in {x}} : TRUE

HeadBytes(seq) == [i \in 1 .. HeadLen |-> 1000 + 100 * seq + i]
ChunkBytes(seq, k, n) == [i \in 1 .. n |-> 2000 + 100 * seq + 10 * k + i]
BodyBytes == [i \in 1 .. BodyLen |-> 100 + i]

VARIABLES
  inner,      \* struct Inner: next_seq, cur_seq, state, error, tasks, conn_waker
  poisoned,   \* the Mutex around Inner is poisoned (a holder panicked)
  io,         \* the transport S of Connection<S>
  peer,       \* the server: the segments it has still to send
  rf,         \* ResponseFuture of each seq
  ss,         \* SendStream of each seq
  rs,         \* RecvStream and the BodyReader over it, of each seq
  conn,       \* the engine future: last poll result, woken by a waker
  call,       \* a call of a function over header lines: its input and its result
  log         \* history: every byte written or read by the engine, every state change

vars == <<inner, poisoned, io, peer, rf, ss, rs, conn, call, log>>

\* ------------------------------------------------------------------ tasks
\* TaskInfo.task_id is read by Tasks::remove alone, which nothing calls; the
\* tasks of the model carry no id.
SendReqTask(seq, req, end) ==
  [kind |-> "SendReq", seq |-> seq, complete |-> FALSE,
   buf |-> req, end |-> end, reuse_conn |-> FALSE, waker |-> FALSE]
SendBodyTask(seq, body, end) ==
  [kind |-> "SendBody", seq |-> seq, complete |-> FALSE,
   buf |-> body, end |-> end, reuse_conn |-> FALSE, waker |-> FALSE]
RecvResTask(seq) ==
  [kind |-> "RecvRes", seq |-> seq, complete |-> FALSE,
   buf |-> <<>>, end |-> FALSE, reuse_conn |-> FALSE, waker |-> TRUE]
RecvBodyTask(seq, reuse_conn) ==
  [kind |-> "RecvBody", seq |-> seq, complete |-> FALSE,
   buf |-> <<>>, end |-> FALSE, reuse_conn |-> reuse_conn, waker |-> TRUE]

\* Tasks::get_task: the first task of that seq and kind (its index, 0 for None)
get_task(tasks, seq, kind) ==
  LET hits == {i \in 1 .. Len(tasks) : tasks[i].seq = seq /\ tasks[i].kind = kind}
  IN IF hits = {} THEN 0 ELSE CHOOSE i \in hits : \A j \in hits : i <= j

KindForState(state) ==
  CASE state = "Ready" -> "SendReq"
    [] state = "SendBody" -> "SendBody"
    [] state = "Waiting" -> "RecvRes"
    [] state = "RecvBody" -> "RecvBody"
    [] OTHER -> "None"

\* a queue that hands out the first task of the state's kind, of any seq
task_for_state_AnySeq(tasks, cur_seq, state) ==
  LET hits == {i \in 1 .. Len(tasks) : tasks[i].kind = KindForState(state)}
  IN IF hits = {} THEN 0 ELSE CHOOSE i \in hits : \A j \in hits : i <= j

\* Tasks::task_for_state: the task eligible in (cur_seq, state)
task_for_state(tasks, cur_seq, state) == get_task(tasks, cur_seq, KindForState(state))

RECURSIVE Retain(_)
Retain(tasks) ==
  IF tasks = <<>> THEN <<>>
  ELSE IF Head(tasks).complete THEN Retain(Tail(tasks))
       ELSE <<Head(tasks)>> \o Retain(Tail(tasks))
\* Tasks::prune_completed
prune_completed(tasks) == Retain(tasks)

\* Tasks::push
push(in, task) == [in EXCEPT !.tasks = Append(@, task)]
\* an enqueue that leaves the engine's waker where it is
enqueue_NoWake(in, task) == push(in, task)
\* Inner::enqueue: the task is pushed and the engine's registered waker, if
\* any, is taken and woken.
enqueue(in, task) == [push(in, task) EXCEPT !.conn_waker = FALSE]

\* Inner::mark_error
mark_error(in, err) == [in EXCEPT !.state = "Closed", !.error = err]

\* Inner::get_remote_error: "Some" with the stored error's message, "None", or
\* the panic of unwrap() on error = None in state Closed
get_remote_error(in) ==
  IF in.state = "Closed"
  THEN IF in.error = "None" THEN "Panic" ELSE "Some"
  ELSE "None"

\* Inner::assert_can_send_body
assert_can_send_body(in, seq) ==
  IF in.cur_seq > seq THEN "ErrOld"
  ELSE IF in.cur_seq = seq /\ in.state # "SendBody" THEN "ErrState"
  ELSE "None"

\* ------------------------------------------------------------------ history
LogW(seq, kind, b, fin, end) ==
  [t |-> "w", seq |-> seq, kind |-> kind, b |-> b, fin |-> fin, end |-> end,
   from |-> "", to |-> ""]
LogR(seq, kind, b) ==
  [t |-> "r", seq |-> seq, kind |-> kind, b |-> b, fin |-> FALSE, end |-> FALSE,
   from |-> "", to |-> ""]
LogS(seq, ev, from, to) ==
  [t |-> "s", seq |-> seq, kind |-> ev, b |-> 0, fin |-> FALSE, end |-> FALSE,
   from |-> from, to |-> to]
\* the entries of the bytes `wrote` of a payload of which `left` were unwritten
WriteEntries(seq, kind, wrote, left, end) ==
  [i \in 1 .. Len(wrote) |-> LogW(seq, kind, wrote[i], i = left, end)]
ReadEntries(seq, kind, read) ==
  [i \in 1 .. Len(read) |-> LogR(seq, kind, read[i])]

\* ------------------------------------------------------------------ transport
\* The loop of poll_write calls of a SendReq or SendBody task: the transport
\* takes txCap bytes now; a short write splits the buffer and the next
\* poll_write is Pending; a broken transport fails the call.
poll_write_loop(t, buf) ==
  IF t.ioErr
  THEN [poll |-> "Err", buf |-> buf, wrote |-> <<>>, io |-> t]
  ELSE IF t.txCap >= Len(buf)
  THEN [poll |-> "Ok", buf |-> buf, wrote |-> buf,
        io |-> [t EXCEPT !.txCap = @ - Len(buf)]]
  ELSE [poll |-> "Pending", buf |-> Drop(buf, t.txCap), wrote |-> Take(buf, t.txCap),
        io |-> [t EXCEPT !.txCap = 0, !.ioWait = "w"]]

\* ------------------------------------------------------------------ engine tasks
\* A poll_connection result: poll (Ok, Pending, Err), the task and the
\* transport afterwards, the local `state`, the error of an Err, the wakers
\* woken, the bytes written and read, and the event for the history.
\* a SendReq that always hands over to the response
SendReqNextState_Waiting(end) == "Waiting"
SendReqNextState(end) == IF end THEN "Waiting" ELSE "SendBody"

\* SendReq::poll_connection after its writes, w being their outcome
SendReqWritten(task, state, w) ==
  [poll |-> w.poll,
   task |-> [task EXCEPT !.buf = w.buf, !.complete = (w.poll = "Ok")],
   io |-> w.io,
   state |-> IF w.poll = "Ok" THEN SendReqNextState(task.end) ELSE state,
   err |-> IF w.poll = "Err" THEN "Io" ELSE "None",
   wake |-> {},
   wrote |-> w.wrote, read |-> <<>>,
   ev |-> IF task.end THEN "SendReqEnd" ELSE "SendReqMore"]

\* impl ConnectionPoll for SendReq
SendReqPoll(task, t, state) ==
  Let(LAMBDA w : SendReqWritten(task, state, w), poll_write_loop(t, task.buf))

\* a SendBody that ends the send phase with any chunk
SendBodyNextState_Any(end, state) == "Waiting"
SendBodyNextState(end, state) == IF end THEN "Waiting" ELSE state

\* SendBody::poll_connection after its writes, w being their outcome
SendBodyWritten(task, state, w) ==
  [poll |-> w.poll,
   task |-> [task EXCEPT !.buf = w.buf,
                         !.waker = IF w.poll = "Ok" THEN FALSE ELSE @,
                         !.complete = IF w.poll = "Ok" /\ task.end THEN TRUE ELSE @],
   io |-> w.io,
   state |-> IF w.poll = "Ok" THEN SendBodyNextState(task.end, state) ELSE state,
   err |-> IF w.poll = "Err" THEN "Io" ELSE "None",
   wake |-> IF w.poll = "Ok" /\ task.waker THEN {<<"ss", task.seq>>} ELSE {},
   wrote |-> w.wrote, read |-> <<>>,
   ev |-> IF task.end THEN "ChunkEnd" ELSE "ChunkMore"]

\* impl ConnectionPoll for SendBody
SendBodyPoll(task, t, state) ==
  Let(LAMBDA w : SendBodyWritten(task, state, w), poll_write_loop(t, task.buf))

\* The scan loop of RecvRes::poll_connection: sc.bi is buf_index, sc.ei is
\* end_index; one byte is read whenever the scan has reached the buffer's end.
RECURSIVE RecvResScan(_)
RecvResScan(sc) ==
  IF sc.bi = Len(sc.buf)
  THEN IF sc.io.ioErr THEN [sc EXCEPT !.poll = "Err", !.err = "Io"]
       ELSE IF sc.io.rxAvail = <<>>
       THEN IF sc.io.rxEof THEN [sc EXCEPT !.poll = "Err", !.err = "Eof"]
            ELSE [sc EXCEPT !.poll = "Pending", !.io.ioWait = "r"]
       ELSE Let(RecvResScan, [sc EXCEPT !.buf = Append(@, Head(sc.io.rxAvail)),
                                        !.read = Append(@, Head(sc.io.rxAvail)),
                                        !.io.rxAvail = Tail(@)])
  ELSE LET ei == IF sc.buf[sc.bi + 1] = END_OF_HEADER[sc.ei + 1] THEN sc.ei + 1
                 ELSE IF sc.ei > 0 THEN 0 ELSE sc.ei
       IN IF ei = Len(END_OF_HEADER)
          THEN [sc EXCEPT !.poll = "Ok", !.ei = ei]
          ELSE Let(RecvResScan, [sc EXCEPT !.ei = ei, !.bi = @ + 1])

\* RecvRes::poll_connection after its scan loop, sc being the loop's outcome
RecvResScanned(task, state, sc) ==
  [poll |-> sc.poll,
   task |-> [task EXCEPT !.buf = sc.buf],
   io |-> sc.io,
   state |-> IF sc.poll = "Ok" THEN "RecvBody" ELSE state,
   err |-> sc.err,
   wake |-> IF sc.poll = "Ok" THEN {<<"rf", task.seq>>} ELSE {},
   wrote |-> <<>>, read |-> sc.read,
   ev |-> "HeaderFound"]

\* impl ConnectionPoll for RecvRes
RecvResPoll(task, t, state) ==
  Let(LAMBDA sc : RecvResScanned(task, state, sc),
      RecvResScan([buf |-> task.buf, io |-> t, bi |-> 0, ei |-> 0,
                   read |-> <<>>, poll |-> "", err |-> "None"]))

RecvBodyNextState(amount, reuse_conn, state) ==
  IF amount = 0 THEN (IF reuse_conn THEN "Ready" ELSE "Closed") ELSE state

\* impl ConnectionPoll for RecvBody
RecvBodyPoll(task, t, state) ==
  LET padded == Resize(task.buf, RECV_BODY_SIZE)
      amount == Min(Len(t.rxAvail), RECV_BODY_SIZE)
      data == Take(t.rxAvail, amount)
      base == [poll |-> "Ok", task |-> task, io |-> t, state |-> state, err |-> "None",
               wake |-> {}, wrote |-> <<>>, read |-> <<>>,
               ev |-> IF task.reuse_conn THEN "ReadZeroReuse" ELSE "ReadZeroClose"]
  IN IF t.ioErr
     THEN [base EXCEPT !.poll = "Err", !.err = "Io", !.task.buf = padded]
     ELSE IF t.rxAvail = <<>> /\ ~t.rxEof
     THEN [base EXCEPT !.poll = "Pending", !.task.buf = padded, !.io.ioWait = "r"]
     ELSE [base EXCEPT !.task.buf = data,
                       !.task.end = IF amount = 0 THEN TRUE ELSE @,
                       !.io.rxAvail = Drop(@, amount),
                       !.state = RecvBodyNextState(amount, task.reuse_conn, state),
                       !.wake = {<<"rs", task.seq>>},
                       !.read = data]

\* impl ConnectionPoll for Task
poll_connection(task, t, state) ==
  CASE task.kind = "SendReq" -> SendReqPoll(task, t, state)
    [] task.kind = "SendBody" -> SendBodyPoll(task, t, state)
    [] task.kind = "RecvRes" -> RecvResPoll(task, t, state)
    [] task.kind = "RecvBody" -> RecvBodyPoll(task, t, state)

\* ------------------------------------------------------------------ engine
\* an engine that counts a close as the end of a request too
NextCurSeq_OnClose(inner_state, state, cur_seq) ==
  IF inner_state # state /\ state \in {"Ready", "Closed"} THEN cur_seq + 1 ELSE cur_seq

\* Connection::poll lines 332-334: cur_seq after an Ok task step
NextCurSeq(inner_state, state, cur_seq) ==
  IF inner_state # "Ready" /\ state = "Ready" THEN cur_seq + 1 ELSE cur_seq

\* The history of one task step: the bytes it moved, then the state change.
StepLog(in, task, p, after) ==
  WriteEntries(task.seq, task.kind, p.wrote, Len(task.buf), task.end)
    \o ReadEntries(task.seq, task.kind, p.read)
    \o (IF p.poll = "Err"
        THEN <<LogS(in.cur_seq, "IoError", in.state, after.state)>>
        ELSE IF p.poll = "Ok" /\ (after.state # in.state \/ after.cur_seq # in.cur_seq)
        THEN <<LogS(in.cur_seq, p.ev, in.state, after.state)>>
        ELSE <<>>)

\* Connection::poll lines 330-342: Inner after the step p of the task at i
AfterStep(in, i, p) ==
  CASE p.poll = "Pending" -> [in EXCEPT !.tasks[i] = p.task]
    [] p.poll = "Ok" ->
         [in EXCEPT !.tasks[i] = p.task,
                    !.cur_seq = NextCurSeq(in.state, p.state, @),
                    !.state = p.state]
    [] p.poll = "Err" -> mark_error([in EXCEPT !.tasks[i] = p.task], p.err)

\* the engine after the step p of `task`, which left Inner as `after`
Stepped(e, task, p, after) ==
  [e EXCEPT !.inner = after, !.io = p.io,
            !.log = @ \o StepLog(e.inner, task, p, after),
            !.wake = @ \cup p.wake,
            !.ret = IF p.poll = "Pending" THEN "Pending" ELSE @]

\* The loop of Connection::poll, run to its return.  e.ret is the value
\* returned: Pending, Ok (Ready(Ok(()))) or Err (Ready(Err(_))).
RECURSIVE ConnectionLoop(_)
\* one turn of the loop with the eligible task at i, p being its step
LoopTurn(e, i, p) ==
  IF p.poll = "Pending"
  THEN Stepped(e, e.inner.tasks[i], p, AfterStep(e.inner, i, p))
  ELSE Let(ConnectionLoop,
           [Stepped(e, e.inner.tasks[i], p, AfterStep(e.inner, i, p))
              EXCEPT !.inner.tasks = prune_completed(@)])

\* one turn of the loop, i being what task_for_state found
LoopFound(e, i) ==
  IF i = 0
  THEN [e EXCEPT !.inner.conn_waker = TRUE, !.ret = "Pending"]
  ELSE Let(LAMBDA p : LoopTurn(e, i, p),
           poll_connection(e.inner.tasks[i], e.io, e.inner.state))

\* an engine that looks for Closed after a step only, and entered Closed goes
\* on as if Ready
ConnectionLoop_Reopen(e) ==
  IF e.inner.state = "Closed" /\ e.log # log
  THEN [e EXCEPT !.ret = IF e.inner.error # "None" THEN "Err" ELSE "Ok"]
  ELSE Let(LAMBDA i : LoopFound(e, i),
           task_for_state(e.inner.tasks, e.inner.cur_seq,
                          IF e.inner.state = "Closed" THEN "Ready" ELSE e.inner.state))

ConnectionLoop(e) ==
  IF e.inner.state = "Closed"
  THEN [e EXCEPT !.ret = IF e.inner.error # "None" THEN "Err" ELSE "Ok"]
  ELSE Let(LAMBDA i : LoopFound(e, i),
           task_for_state(e.inner.tasks, e.inner.cur_seq, e.inner.state))

\* ------------------------------------------------------------------ response head
\* The header lines the first byte of a head stands for.
Headers(tag) ==
  [te_chunked |-> FALSE,
   content_length |-> IF tag \in {HdrLen, HdrClose} THEN BodyLen ELSE -1,
   close |-> tag = HdrClose]

HasTerminator(buf) ==
  \E i \in 1 .. Len(buf) : i + 3 <= Len(buf) /\ SubSeq(buf, i, i + 3) = END_OF_HEADER

\* RecvRes::try_parse: Partial (Ok(None)), Complete (Ok(Some(res))) or Err
try_parse(buf) ==
  IF ~HasTerminator(buf) THEN "Partial"
  ELSE IF buf[1] = HdrBad THEN "Err" ELSE "Complete"

NoLimiter == [kind |-> "None", limit |-> 0, total |-> 0, close |-> FALSE]

\* Limiter::from_response, of the response with these header lines
from_response(h) ==
  IF h.te_chunked
  THEN [kind |-> "Chunked", limit |-> 0, total |-> 0, close |-> h.close]
  ELSE IF h.content_length >= 0
  THEN [kind |-> "ContentLength", limit |-> h.content_length, total |-> 0,
        close |-> h.close]
  ELSE [kind |-> "UntilEnd", limit |-> 0, total |-> 0, close |-> h.close]

\* Limiter::is_reusable_conn
is_reusable_conn(l) == ~l.close /\ l.kind \in {"Chunked", "ContentLength"}

\* ------------------------------------------------------------------ handles
\* SendRequest::send_request; ok is whether SendReq::from_request serialized
\* the request.  The seq is taken before the request is serialized.
send_request(in, end, ok) ==
  LET seq == in.next_seq
      taken == [in EXCEPT !.next_seq = @ + 1]
  IN IF ok
     THEN [res |-> "Ok", inner |-> enqueue(taken, SendReqTask(seq, HeadBytes(seq), end))]
     ELSE [res |-> "Err", inner |-> taken]

\* ResponseFuture::poll
ResponseFuture_poll(in, seq) ==
  LET g == get_remote_error(in)
      i == get_task(in.tasks, seq, "RecvRes")
  IN IF g = "Panic" THEN [res |-> "Panic", inner |-> in]
     ELSE IF g = "Some" THEN [res |-> "ErrRemote", inner |-> in]
     ELSE IF i = 0
     THEN [res |-> "Pending", inner |-> enqueue(in, RecvResTask(seq))]
     ELSE LET parsed == try_parse(in.tasks[i].buf)
          IN CASE parsed = "Err" -> [res |-> "ErrParse", inner |-> in]
               [] parsed = "Complete" ->
                    [res |-> "Ok", inner |-> [in EXCEPT !.tasks[i].complete = TRUE]]
               [] parsed = "Partial" ->
                    [res |-> "Pending", inner |-> [in EXCEPT !.tasks[i].waker = TRUE]]

\* SendStream::poll_can_send_data
poll_can_send_data(in, seq) ==
  LET g == get_remote_error(in)
      a == assert_can_send_body(in, seq)
      i == get_task(in.tasks, seq, "SendBody")
  IN IF g = "Panic" THEN [res |-> "Panic", inner |-> in]
     ELSE IF g = "Some" THEN [res |-> "ErrRemote", inner |-> in]
     ELSE IF a # "None" THEN [res |-> a, inner |-> in]
     ELSE IF i # 0
     THEN [res |-> "Pending", inner |-> [in EXCEPT !.tasks[i].waker = TRUE]]
     ELSE [res |-> "Ok", inner |-> in]

\* SendStream::send_data
send_data(in, seq, data, end) ==
  LET a == assert_can_send_body(in, seq)
  IN IF a # "None" THEN [res |-> a, inner |-> in]
     ELSE [res |-> "Ok", inner |-> enqueue(in, SendBodyTask(seq, data, end))]

\* RecvReader::poll_read into an `out` of n bytes, i being the RecvBody task
\* of seq that get_recv_body found
ReadFound(in, i, seq, reuse_conn, n) ==
  IF i = 0
  THEN [poll |-> "Pending", data |-> <<>>,
        inner |-> enqueue(in, RecvBodyTask(seq, reuse_conn))]
  ELSE LET buf == in.tasks[i].buf
           max == Min(Len(buf), n)
           wk == [in EXCEPT !.tasks[i].waker = TRUE]
       IN IF buf = <<>> /\ ~in.tasks[i].end
          THEN [poll |-> "Pending", data |-> <<>>, inner |-> wk]
          ELSE IF buf = <<>>
          THEN [poll |-> "Ready", data |-> <<>>,
                inner |-> [wk EXCEPT !.tasks[i].complete = TRUE]]
          ELSE [poll |-> "Ready", data |-> Take(buf, max),
                inner |-> IF max < Len(buf)
                          THEN [wk EXCEPT !.tasks[i].buf = Drop(buf, max)]
                          ELSE wk]

\* RecvReader::poll_read
RecvReader_poll_read(in, seq, reuse_conn, n) ==
  Let(LAMBDA i : ReadFound(in, i, seq, reuse_conn, n), get_task(in.tasks, seq, "RecvBody"))

\* A limiter's read_from after its read r of the RecvReader; locked is
\* whether the read took the lock on Inner.
Counted(l, r) ==
  [poll |-> r.poll, data |-> r.data, inner |-> r.inner,
   limiter |-> [l EXCEPT !.total = @ + Len(r.data)], locked |-> TRUE]

\* ContentLength::read_from
ContentLength_read_from(in, l, seq, reuse_conn, n) ==
  IF l.limit - l.total = 0
  THEN [poll |-> "Ready", data |-> <<>>, inner |-> in, limiter |-> l, locked |-> FALSE]
  ELSE Let(LAMBDA r : Counted(l, r),
           RecvReader_poll_read(in, seq, reuse_conn, Min(n, l.limit - l.total)))

Uncounted(l, r) ==
  [poll |-> r.poll, data |-> r.data, inner |-> r.inner, limiter |-> l, locked |-> TRUE]

\* UntilEnd::read_from
UntilEnd_read_from(in, l, seq, reuse_conn, n) ==
  Let(LAMBDA r : Uncounted(l, r), RecvReader_poll_read(in, seq, reuse_conn, n))

\* Limiter::read_from (no response of the model is chunked)
Limiter_read_from(in, l, seq, reuse_conn, n) ==
  CASE l.kind = "ContentLength" -> ContentLength_read_from(in, l, seq, reuse_conn, n)
    [] l.kind = "UntilEnd" -> UntilEnd_read_from(in, l, seq, reuse_conn, n)

\* RecvStream::read after the limiter's read q
StreamRead(r, q) ==
  [poll |-> q.poll, data |-> q.data, inner |-> q.inner, locked |-> q.locked,
   r |-> [r EXCEPT !.limiter = q.limiter,
                   !.finished = IF q.poll = "Ready" /\ q.data = <<>> THEN TRUE ELSE @]]

\* One poll of RecvStream::read into a buffer of n bytes; r is the stream.
RecvStream_read(in, r, seq, n) ==
  IF r.finished
  THEN [poll |-> "Ready", data |-> <<>>, inner |-> in, r |-> r, locked |-> FALSE]
  ELSE Let(LAMBDA q : StreamRead(r, q),
           Limiter_read_from(in, r.limiter, seq, is_reusable_conn(r.limiter), n))

\* poll_read_to_buf after the stream's read q
BufRead(q) ==
  [q EXCEPT !.r.is_finished = IF q.poll = "Ready" /\ q.data = <<>> THEN TRUE ELSE @]

\* BodyReader::poll_read_to_buf for BodyImpl::Http1, into the read buffer
poll_read_to_buf(in, r, seq) ==
  IF r.is_finished
  THEN [poll |-> "Ready", data |-> <<>>, inner |-> in, r |-> r, locked |-> FALSE]
  ELSE Let(BufRead, RecvStream_read(in, r, seq, BUF_SIZE))

\* the copy out of the read buffer at the end of BodyReader::poll_read
CopyOut(in, r, n, locked) ==
  [poll |-> "Ready", data |-> Take(r.read_buf, n), inner |-> in,
   r |-> [r EXCEPT !.read_buf = Drop(@, n)], locked |-> locked]

\* BodyReader::poll_read after do_poll_fill, f being the fill
Filled(f, n) ==
  IF f.poll = "Pending" \/ f.data = <<>>
  THEN [f EXCEPT !.data = <<>>]
  ELSE CopyOut(f.inner, [f.r EXCEPT !.read_buf = f.data], n, f.locked)

\* a BodyReader over a stream that both forget that the body has ended
BodyReader_poll_read_Forgetful(in, r, seq, n) ==
  IF r.read_buf # <<>> THEN CopyOut(in, r, n, FALSE)
  ELSE Let(LAMBDA f : Filled(f, n),
           Let(BufRead,
               Let(LAMBDA q : StreamRead(r, q),
                   Limiter_read_from(in, r.limiter, seq, is_reusable_conn(r.limiter),
                                     BUF_SIZE))))

\* BodyReader::poll_read (with do_poll_fill) into a caller buffer of n bytes.
\* r.read_buf is read_buf[0 .. read_buf_end].
BodyReader_poll_read(in, r, seq, n) ==
  IF r.read_buf # <<>> THEN CopyOut(in, r, n, FALSE)
  ELSE IF r.is_finished
  THEN [poll |-> "Ready", data |-> <<>>, inner |-> in, r |-> r, locked |-> FALSE]
  ELSE Let(LAMBDA f : Filled(f, n), poll_read_to_buf(in, r, seq))

\* do_poll_fill after poll_read_to_buf, f being what it read
FilledBuf(f) ==
  IF f.poll = "Pending" THEN f ELSE [f EXCEPT !.r.read_buf = f.data]

\* BodyReader::do_poll_fill; data is the filled part of the read buffer
do_poll_fill(in, r, seq) ==
  IF r.read_buf # <<>>
  THEN [poll |-> "Ready", data |-> r.read_buf, inner |-> in, r |-> r, locked |-> FALSE]
  ELSE IF r.is_finished
  THEN [poll |-> "Ready", data |-> <<>>, inner |-> in, r |-> r, locked |-> FALSE]
  ELSE Let(FilledBuf, poll_read_to_buf(in, r, seq))

\* AsyncBufRead for BodyReader: poll_fill_buf
BodyReader_poll_fill_buf(in, r, seq) == do_poll_fill(in, r, seq)

\* AsyncBufRead for BodyReader: consume; data is what the caller takes
BodyReader_consume(in, r, amount) ==
  [poll |-> "Ready", data |-> Take(r.read_buf, amount), inner |-> in,
   r |-> [r EXCEPT !.read_buf = Drop(@, amount)], locked |-> FALSE]

\* BodyReader::read_to_end after one read q of its loop: "More" when the
\* read gave bytes (they are dropped) and the loop goes on
ReadToEndAfter(q) ==
  [res |-> IF q.poll = "Pending" THEN "Pending"
           ELSE IF q.data = <<>> THEN "Ok" ELSE "More",
   inner |-> q.inner, r |-> q.r, locked |-> q.locked]

\* One read of the loop of BodyReader::read_to_end, into a buffer of BUF_SIZE
\* bytes.  (Each read takes the lock on Inner anew, so the reads of one drain
\* are steps of their own.)
read_to_end(in, r, seq) ==
  Let(ReadToEndAfter, BodyReader_poll_read(in, r, seq, BUF_SIZE))

\* an into_connection that hands out the Connection without reading the body
BodyReader_into_connection_NoDrain(in, r, seq, started, fail) ==
  [res |-> "Ok", inner |-> in, r |-> r, locked |-> FALSE]

\* BodyReader::into_connection for BodyImpl::Http1, up to and with its next
\* read.  started: the call is in read_to_end already; fail: the read
\* returns Err.
BodyReader_into_connection(in, r, seq, started, fail) ==
  IF ~started /\ r.is_finished
  THEN [res |-> "Ok", inner |-> in, r |-> r, locked |-> FALSE]
  ELSE IF fail
  THEN [res |-> "Err", inner |-> in, r |-> r, locked |-> FALSE]
  ELSE read_to_end(in, r, seq)

\* ------------------------------------------------------------------ body
ContentEncodings == {"Deferred", "Plain", "GzipDecode", "GzipEncode"}

\* BodyCodec::new: the codec variant of a ContentEncoding
BodyCodec_new(kind) ==
  CASE kind = "Deferred" -> "Deferred"
    [] kind = "Plain" -> "Plain"
    [] kind = "GzipDecode" -> "GzipDecoder"
    [] kind = "GzipEncode" -> "GzipEncoder"

\* Body::resolve_deferred: the call returns (), whatever the codec was
resolve_deferred(body, codec_kind) ==
  [ret |-> "Unit",
   body |-> IF body.codec = "Deferred"
            THEN [body EXCEPT !.codec = BodyCodec_new(codec_kind)]
            ELSE body]

\* the codec that the first resolve_deferred call away from Deferred chose
\* (history of the calls, "None" before such a call)
ResolvedAfter(body, codec_kind) ==
  IF body.codec = "Deferred" /\ codec_kind # "Deferred"
  THEN BodyCodec_new(codec_kind)
  ELSE body.resolved

\* a BodyCodec whose poll_read passes a Deferred codec's read to the reader
BodyCodec_poll_read_Through(in, r, seq, n) == BodyReader_poll_read(in, r, seq, n)

\* AsyncRead for BodyCodec: poll_read
BodyCodec_poll_read(in, r, seq, n) ==
  IF r.codec = "Deferred"
  THEN [poll |-> "Panic", data |-> <<>>, inner |-> in, r |-> r, locked |-> FALSE]
  ELSE BodyReader_poll_read(in, r, seq, n)

\* AsyncBufRead for BodyCodec: poll_fill_buf
BodyCodec_poll_fill_buf(in, r, seq) ==
  IF r.codec = "Deferred"
  THEN [poll |-> "Panic", data |-> <<>>, inner |-> in, r |-> r, locked |-> FALSE]
  ELSE BodyReader_poll_fill_buf(in, r, seq)

\* AsyncBufRead for BodyCodec: consume
BodyCodec_consume(in, r, amount) ==
  IF r.codec = "Deferred"
  THEN [poll |-> "Panic", data |-> <<>>, inner |-> in, r |-> r, locked |-> FALSE]
  ELSE BodyReader_consume(in, r, amount)

\* Body::into_connection up to and with its next read: BodyCodec::into_inner,
\* then BodyReader::into_connection
Body_into_connection(in, r, seq, started, fail) ==
  IF r.codec = "Deferred"
  THEN [res |-> "Panic", inner |-> in, r |-> r, locked |-> FALSE]
  ELSE BodyReader_into_connection(in, r, seq, started, fail)

\* poll_fill_buf lends the bytes of the read buffer: none is delivered
\* before consume
Lent(q) ==
  [q EXCEPT !.data = <<>>, !.poll = IF @ = "Ready" THEN "Lent" ELSE @]

\* AsyncRead for Body: poll_read (no char codec is set)
Body_poll_read(in, r, seq, n) ==
  BodyCodec_poll_read(in, [r EXCEPT !.has_read = TRUE], seq, n)

\* ------------------------------------------------------------------ peer
\* The response of the peer, in the segments it arrives in: the head with the
\* first body byte in its last segment, then the body byte by byte.
Script(tag) ==
  <<<<tag, CR, LF>>, <<CR, LF, BodyBytes[1]>>>>
    \o [i \in 1 .. (BodyLen - 1) |-> <<BodyBytes[i + 1]>>]

HeadWritten(seq) ==
  \E i \in 1 .. Len(log) :
    log[i].t = "w" /\ log[i].kind = "SendReq" /\ log[i].seq = seq /\ log[i].fin

BytesWritten == Cardinality({i \in 1 .. Len(log) : log[i].t = "w"})

\* ------------------------------------------------------------------ state
NoStream == [st |-> "None", limiter |-> NoLimiter, finished |-> FALSE,
             read_buf |-> <<>>, is_finished |-> FALSE,
             codec |-> "None", has_read |-> FALSE, resolves |-> 0, resolved |-> "None",
             got |-> <<>>, zeros |-> 0, woken |-> FALSE]

NoCall == [op |-> "none", arg |-> <<>>, ret |-> <<>>]

\* Inner::new and the handles of handshake
EngineInit ==
  /\ inner = [next_seq |-> 0, cur_seq |-> 0, state |-> "Ready", error |-> "None",
              tasks |-> <<>>, conn_waker |-> FALSE]
  /\ poisoned = FALSE
  /\ io = [rxAvail |-> <<>>, rxEof |-> FALSE, ioWait |-> "none"]
  /\ peer = [n |-> 0, plan |-> <<>>]
  /\ rf = [s \in Seqs |-> [st |-> "None", woken |-> FALSE]]
  /\ ss = [s \in Seqs |-> [st |-> "None", sent |-> 0, woken |-> FALSE]]
  /\ rs = [s \in Seqs |-> NoStream]
  /\ conn = [woken |-> TRUE]
  /\ log = <<>>

Init == EngineInit /\ call = NoCall

WakeConn(before, after) ==
  [conn EXCEPT !.woken = @ \/ (before.conn_waker /\ ~after.conn_waker)]

\* One call of SendRequest::send_request.  The caller keeps the SendStream
\* of a request that has a body (end = false) and drops that of one that has
\* none.
SendRequest(end, ok) ==
  /\ ~poisoned
  /\ inner.next_seq < MaxReq
  /\ LET q == send_request(inner, end, ok)
         seq == inner.next_seq
     IN /\ inner' = q.inner
        /\ conn' = WakeConn(inner, q.inner)
        /\ rf' = IF ok THEN [rf EXCEPT ![seq].st = "Idle"] ELSE rf
        /\ ss' = IF ok /\ ~end THEN [ss EXCEPT ![seq].st = "Idle"] ELSE ss
  /\ UNCHANGED <<poisoned, io, peer, rs, log, call>>

\* One poll of the ResponseFuture of seq; the RecvStream of a response is
\* wrapped at once in a Body::new(BodyImpl::Http1(..), codec_kind).
ResponseFuturePollAs(seq, codec_kind) ==
  /\ ~poisoned
  /\ rf[seq].st \in {"Idle", "Pending"}
  /\ LET q == ResponseFuture_poll(inner, seq)
         i == get_task(inner.tasks, seq, "RecvRes")
     IN /\ inner' = q.inner
        /\ poisoned' = (q.res = "Panic")
        /\ conn' = WakeConn(inner, q.inner)
        /\ rf' = [rf EXCEPT ![seq] = [st |-> q.res, woken |-> FALSE]]
        /\ rs' = IF q.res = "Ok"
                 THEN [rs EXCEPT ![seq].st = "Open",
                                 ![seq].limiter = from_response(Headers(inner.tasks[i].buf[1])),
                                 ![seq].codec = BodyCodec_new(codec_kind)]
                 ELSE rs
  /\ UNCHANGED <<io, peer, ss, log, call>>

\* one poll of the ResponseFuture of seq, of a response read without codec
ResponseFuturePoll(seq) == ResponseFuturePollAs(seq, "Plain")

\* Body::resolve_deferred(codec_kind) on the body of seq
ResolveDeferred(seq, codec_kind) ==
  /\ rs[seq].st = "Open"
  /\ rs[seq].resolves < MaxResolves
  /\ rs' = [rs EXCEPT ![seq] = [resolve_deferred(rs[seq], codec_kind).body
                                  EXCEPT !.resolves = @ + 1,
                                         !.resolved = ResolvedAfter(rs[seq], codec_kind)]]
  /\ UNCHANGED <<inner, poisoned, io, peer, rf, ss, conn, log, call>>

\* one poll of SendStream::ready of seq; an error drops the stream
SendStreamReady(seq) ==
  /\ ~poisoned
  /\ ss[seq].st \in {"Idle", "Readying"}
  /\ LET q == poll_can_send_data(inner, seq)
     IN /\ inner' = q.inner
        /\ poisoned' = (q.res = "Panic")
        /\ ss' = [ss EXCEPT ![seq].st = CASE q.res = "Ok" -> "Idle"
                                          [] q.res = "Pending" -> "Readying"
                                          [] q.res = "Panic" -> "Panic"
                                          [] OTHER -> "Gone",
                            ![seq].woken = FALSE]
  /\ UNCHANGED <<io, peer, rf, rs, conn, log, call>>

\* SendStream::send_data of seq with a payload of n bytes
SendData(seq, n, end) ==
  /\ ~poisoned
  /\ ss[seq].st = "Idle"
  /\ ss[seq].sent < MaxChunks
  /\ LET q == send_data(inner, seq, ChunkBytes(seq, ss[seq].sent + 1, n), end)
     IN /\ inner' = q.inner
        /\ conn' = WakeConn(inner, q.inner)
        /\ ss' = [ss EXCEPT ![seq].sent = @ + 1]
  /\ UNCHANGED <<poisoned, io, peer, rf, rs, log, call>>

\* the reads that returned 0 so far (counted up to MaxZeros), after the poll q
ZerosAfter(zeros, q) ==
  IF q.poll = "Ready" /\ q.data = <<>> THEN Min(zeros + 1, MaxZeros) ELSE zeros

\* the caller after the poll q of a read of the response body of seq
BodyReadDone(seq, q) ==
  IF q.locked /\ poisoned
  THEN /\ rs' = [rs EXCEPT ![seq].woken = FALSE]
       /\ UNCHANGED <<inner, conn>>
  ELSE /\ inner' = q.inner
       /\ conn' = WakeConn(inner, q.inner)
       /\ rs' = [rs EXCEPT ![seq] = [q.r EXCEPT !.got = @ \o q.data,
                                                !.zeros = ZerosAfter(@, q),
                                                !.st = IF q.poll = "Panic" THEN "Panic" ELSE @,
                                                !.woken = FALSE]]

\* One poll of a read of the response body of seq into n bytes.  (What a
\* gzip codec makes of the bytes is outside the model: a body with one is not
\* read.)
BodyRead(seq, n) ==
  /\ rs[seq].st = "Open"
  /\ rs[seq].codec \in {"Deferred", "Plain"}
  /\ Len(rs[seq].got) < MaxGot
  /\ \E q \in {Body_poll_read(inner, rs[seq], seq, n)} : BodyReadDone(seq, q)
  /\ UNCHANGED <<poisoned, io, peer, rf, ss, log, call>>

\* one poll_fill_buf on the codec of the body of seq
BodyFillBuf(seq) ==
  /\ rs[seq].st = "Open"
  /\ rs[seq].codec \in {"Deferred", "Plain"}
  /\ Len(rs[seq].got) < MaxGot
  /\ \E q \in {Lent(BodyCodec_poll_fill_buf(inner, rs[seq], seq))} : BodyReadDone(seq, q)
  /\ UNCHANGED <<poisoned, io, peer, rf, ss, log, call>>

\* one consume of amount bytes on the codec of the body of seq (of no more
\* than a poll_fill_buf has lent, unless the codec is Deferred)
BodyConsume(seq, amount) ==
  /\ rs[seq].st = "Open"
  /\ rs[seq].codec \in {"Deferred", "Plain"}
  /\ rs[seq].codec = "Plain" => amount <= Len(rs[seq].read_buf)
  /\ Len(rs[seq].got) < MaxGot
  /\ \E q \in {BodyCodec_consume(inner, rs[seq], amount)} : BodyReadDone(seq, q)
  /\ UNCHANGED <<poisoned, io, peer, rf, ss, log, call>>

\* the state of the body after a step of into_connection that gave res
AfterIntoConnection(res) ==
  CASE res = "Pending" -> "Draining"
    [] res = "More" -> "Draining"
    [] res = "Ok" -> "Connection"
    [] res = "Err" -> "Err"
    [] res = "Panic" -> "Panic"

IntoConnectionDone(seq, d) ==
  IF d.locked /\ poisoned
  THEN /\ rs' = [rs EXCEPT ![seq].st = "Panic", ![seq].woken = FALSE]
       /\ UNCHANGED <<inner, conn>>
  ELSE /\ inner' = d.inner
       /\ conn' = WakeConn(inner, d.inner)
       /\ rs' = [rs EXCEPT ![seq] = [d.r EXCEPT !.st = AfterIntoConnection(d.res),
                                                !.woken = FALSE]]

\* One step of Body::into_connection on the body of seq: to its end, or to the
\* end of one read of its drain.  The call consumes the body.
IntoConnectionPoll(seq, fail) ==
  /\ rs[seq].st \in {"Open", "Draining"}
  /\ \E d \in {Body_into_connection(inner, rs[seq], seq, rs[seq].st = "Draining", fail)} :
       IntoConnectionDone(seq, d)
  /\ UNCHANGED <<poisoned, io, peer, rf, ss, log, call>>

Woken(h, kind, wake, pending) ==
  [s \in Seqs |-> IF <<kind, s>> \in wake /\ h[s].st \in pending
                  THEN [h[s] EXCEPT !.woken = TRUE] ELSE h[s]]

\* The transport as one engine poll finds it: it takes `cap` more bytes, and
\* with `fail` its calls fail, in this poll.
Transport(cap, fail) ==
  [txCap |-> cap, ioErr |-> fail, rxAvail |-> io.rxAvail, rxEof |-> io.rxEof,
   ioWait |-> "none"]

EngineRun(cap, fail) ==
  ConnectionLoop([inner |-> inner, io |-> Transport(cap, fail), log |-> log,
                  wake |-> {}, ret |-> ""])

\* the state after a poll of the engine that ran as e
ConnectionPolled(e) ==
  /\ inner' = e.inner
  /\ io' = [rxAvail |-> e.io.rxAvail, rxEof |-> e.io.rxEof,
            ioWait |-> IF e.io.ioWait = "r" THEN "r" ELSE "none"]
  /\ log' = e.log
  /\ conn' = [woken |-> e.io.ioWait = "w"]
  /\ rf' = Woken(rf, "rf", e.wake, {"Pending"})
  /\ ss' = Woken(ss, "ss", e.wake, {"Readying"})
  /\ rs' = Woken(rs, "rs", e.wake, {"Open"})

\* One poll of the engine future Connection<S>.  A poll left Pending by a
\* write is woken again by the transport.
ConnectionPoll(cap, fail) ==
  /\ ~poisoned
  /\ BytesWritten + cap <= MaxTx
  /\ \E e \in {EngineRun(cap, fail)} : ConnectionPolled(e)
  /\ UNCHANGED <<poisoned, peer, call>>

\* the transport wakes the engine when what it waits to read has come
IoWake ==
  [conn EXCEPT !.woken = @ \/ io.ioWait = "r"]

\* The peer, having the head of the next request it has not answered and
\* having sent all of the response before, starts its response.  (What the
\* peer does once the engine is Closed is never read.)
PeerStart(tag) ==
  /\ peer.n < MaxReq /\ peer.plan = <<>> /\ ~io.rxEof /\ inner.state # "Closed"
  /\ HeadWritten(peer.n)
  /\ peer' = [n |-> peer.n + 1, plan |-> Tail(Script(tag))]
  /\ io' = [io EXCEPT !.rxAvail = @ \o Head(Script(tag)), !.ioWait = "none"]
  /\ conn' = IoWake
  /\ UNCHANGED <<inner, poisoned, rf, ss, rs, log, call>>

\* the next segment of the response arrives
PeerSend ==
  /\ peer.plan # <<>> /\ ~io.rxEof /\ inner.state # "Closed"
  /\ peer' = [peer EXCEPT !.plan = Tail(@)]
  /\ io' = [io EXCEPT !.rxAvail = @ \o Head(peer.plan), !.ioWait = "none"]
  /\ conn' = IoWake
  /\ UNCHANGED <<inner, poisoned, rf, ss, rs, log, call>>

\* The peer closes: reads return 0 once what arrived is read.  Only a read
\* sees the close and the engine reads only in Waiting and RecvBody, so a
\* close is taken when the engine is there.
PeerClose ==
  /\ ~io.rxEof /\ inner.state \in {"Waiting", "RecvBody"}
  /\ io' = [io EXCEPT !.rxEof = TRUE, !.ioWait = "none"]
  /\ conn' = IoWake
  /\ UNCHANGED <<inner, poisoned, peer, rf, ss, rs, log, call>>

\* The caller sends a request once the head of the response before it has
\* resolved.
NextRequest(end) ==
  /\ inner.next_seq > 0 => rf[inner.next_seq - 1].st \notin {"Idle", "Pending"}
  /\ SendRequest(end, TRUE)

\* The engine with its handles, the caller and the peer: up to MaxReq requests,
\* a transport that takes any number of bytes and may fail in any poll, a peer
\* that may close.
Next ==
  \/ \E end \in BOOLEAN : NextRequest(end)
  \/ \E seq \in Seqs : ResponseFuturePoll(seq)
  \/ \E seq \in Seqs : SendStreamReady(seq)
  \/ \E seq \in Seqs, n \in 1 .. MaxData, end \in BOOLEAN : SendData(seq, n, end)
  \/ \E seq \in Seqs : BodyRead(seq, BUF_SIZE)
  \/ \E cap \in 0 .. MaxTx, fail \in BOOLEAN : ConnectionPoll(cap, fail)
  \/ \E tag \in {HdrLen, HdrClose, HdrBad} : PeerStart(tag)
  \/ PeerSend
  \/ PeerClose

Spec == Init /\ [][Next]_vars

\* One request and its response in full: every kind of head, reads into
\* caller buffers of every size.
NextBody ==
  \/ \E end \in BOOLEAN : inner.next_seq = 0 /\ SendRequest(end, TRUE)
  \/ \E kind \in {"Deferred", "Plain"} : ResponseFuturePollAs(0, kind)
  \/ \E kind \in ContentEncodings : ResolveDeferred(0, kind)
  \/ SendStreamReady(0)
  \/ \E n \in 1 .. MaxData, end \in BOOLEAN : SendData(0, n, end)
  \/ \E n \in 1 .. BUF_SIZE : BodyRead(0, n)
  \/ BodyFillBuf(0)
  \/ \E fail \in BOOLEAN : IntoConnectionPoll(0, fail)
  \/ \E amount \in 1 .. BUF_SIZE : BodyConsume(0, amount)
  \/ \E cap \in 0 .. MaxTx, fail \in BOOLEAN : ConnectionPoll(cap, fail)
  \/ \E tag \in {HdrLen, HdrClose, HdrNone, HdrBad} : PeerStart(tag)
  \/ PeerSend
  \/ PeerClose

BodySpec == Init /\ [][NextBody]_vars
\* The keep-alive sequence: requests without a body, one after the other, on
\* a transport that stays open and never fails, each answered with a
\* Content-Length head, each body read by the caller to its end.
NextKeepAlive ==
  \/ NextRequest(TRUE)
  \/ \E seq \in Seqs : ResponseFuturePoll(seq)
  \/ \E seq \in Seqs, n \in 1 .. BUF_SIZE : BodyRead(seq, n)
  \/ \E cap \in 0 .. MaxTx : ConnectionPoll(cap, FALSE)
  \/ PeerStart(HdrLen)
  \/ PeerSend

\* Every party keeps going: the caller sends its requests and polls its
\* futures and bodies, the executor polls the engine (at least as often as
\* its wakers ask for), the transport takes bytes and the peer answers.
KeepAliveFair ==
  /\ WF_vars(NextRequest(TRUE))
  /\ \A seq \in Seqs : WF_vars(ResponseFuturePoll(seq))
  /\ \A seq \in Seqs : WF_vars(BodyRead(seq, BUF_SIZE))
  /\ WF_vars(ConnectionPoll(0, FALSE))
  /\ WF_vars(ConnectionPoll(HeadLen, FALSE))
  /\ WF_vars(PeerStart(HdrLen))
  /\ WF_vars(PeerSend)

KeepAliveSpec == Init /\ [][NextKeepAlive]_vars /\ KeepAliveFair

\* The caller drops the Body of the response of seq.  RecvStream has no Drop
\* impl: Inner is not told, the body is only never read again.
DropBody(seq) ==
  /\ rs[seq].st = "Open"
  /\ rs' = [rs EXCEPT ![seq].st = "Dropped"]
  /\ UNCHANGED <<inner, poisoned, io, peer, rf, ss, conn, log, call>>

\* The caller drops the ResponseFuture of seq before it has resolved.
\* ResponseFuture has no Drop impl: its RecvRes task stays queued.
DropResponseFuture(seq) ==
  /\ rf[seq].st \in {"Idle", "Pending"}
  /\ rf' = [rf EXCEPT ![seq].st = "Dropped"]
  /\ UNCHANGED <<inner, poisoned, io, peer, ss, rs, conn, log, call>>

\* The keep-alive sequence with a caller that may drop a ResponseFuture or a
\* Body at any point, and a peer that may close.
NextDrop ==
  \/ NextRequest(TRUE)
  \/ \E seq \in Seqs : ResponseFuturePoll(seq)
  \/ \E seq \in Seqs, n \in 1 .. BUF_SIZE : BodyRead(seq, n)
  \/ \E seq \in Seqs : DropBody(seq)
  \/ \E seq \in Seqs : DropResponseFuture(seq)
  \/ \E cap \in 0 .. MaxTx : ConnectionPoll(cap, FALSE)
  \/ PeerStart(HdrLen)
  \/ PeerSend
  \/ PeerClose

\* As in the keep-alive sequence every party keeps going; a handle that was
\* dropped is polled no more, and the peer need not close.
DropSpec == Init /\ [][NextDrop]_vars /\ KeepAliveFair

\* The producer: requests with a body, one after the other, on a transport
\* that stays open and never fails; the caller awaits ready() and sends
\* chunks, polls its futures and reads the responses, the peer answers.
NextSend ==
  \/ NextRequest(FALSE)
  \/ \E seq \in Seqs : ResponseFuturePoll(seq)
  \/ \E seq \in Seqs : SendStreamReady(seq)
  \/ \E seq \in Seqs, n \in 1 .. MaxData, end \in BOOLEAN : SendData(seq, n, end)
  \/ \E seq \in Seqs : BodyRead(seq, BUF_SIZE)
  \/ \E cap \in 0 .. MaxTx : ConnectionPoll(cap, FALSE)
  \/ PeerStart(HdrLen)
  \/ PeerSend

\* The producer polls ready() as long as it waits on it, the executor polls
\* the engine, and the transport takes a chunk whenever it is offered one.
SendFair ==
  /\ \A seq \in Seqs : WF_vars(SendStreamReady(seq))
  /\ WF_vars(ConnectionPoll(0, FALSE))
  /\ WF_vars(ConnectionPoll(MaxData, FALSE))
  /\ WF_vars(ConnectionPoll(HeadLen, FALSE))

SendSpec == Init /\ [][NextSend]_vars /\ SendFair

\* ------------------------------------------------------------------ header lines
\* A header line's value: absent, a number in decimal, or another word.
Absent == [has |-> FALSE, num |-> FALSE, n |-> 0, word |-> ""]
Num(n) == [has |-> TRUE, num |-> TRUE, n |-> n, word |-> ""]
Word(w) == [has |-> TRUE, num |-> FALSE, n |-> 0, word |-> w]

\* HeaderMap::get(name).and_then(|h| h.to_str().ok().and_then(|c| c.parse::<u64>().ok()))
ParseU64(v) == IF v.has /\ v.num THEN [some |-> TRUE, n |-> v.n] ELSE [some |-> FALSE, n |-> 0]

\* str::to_lowercase, on the words of the model
ToLower(w) == IF w = "Close" THEN "close" ELSE w

\* header(name).map(|k| k.to_lowercase().contains("close")).unwrap_or(false)
IsClose(v) == v.has /\ ~v.num /\ ToLower(v.word) = "close"

\* Limiter::from_res, of a response with these header lines
from_res(res) ==
  LET transfer_enc_chunk == res.transfer_encoding.has /\ res.transfer_encoding.word = "chunked"
      content_size == ParseU64(res.content_size)
      use_chunked == transfer_enc_chunk \/ ~content_size.some
  IN IF use_chunked THEN [kind |-> "Chunked", limit |-> 0, total |-> 0]
     ELSE IF content_size.some
     THEN [kind |-> "ContentLength", limit |-> content_size.n, total |-> 0]
     ELSE [kind |-> "UntilEnd", limit |-> 0, total |-> 0]

\* connect: keep_alive_possible, of the request and the response
keep_alive_possible(req, res) ==
  LET req_is_close == IsClose(req.connection)
      resp_is_close == IsClose(res.connection)
  IN ~req_is_close /\ ~resp_is_close
       /\ (res.content_length.has \/ res.transfer_encoding.has)

Lengths == {Absent, Word("x")} \cup {Num(n) : n \in 0 .. MaxLength}
Connections == {Absent, Word("close"), Word("Close"), Word("keep-alive")}
Requests == [connection : Connections]
Responses ==
  [transfer_encoding : {Absent, Word("chunked"), Word("gzip")},
   content_length : Lengths, content_size : Lengths, connection : Connections]

\* a response has arrived for a request: any header lines
HeaderInit ==
  /\ EngineInit
  /\ call \in {[op |-> "none", arg |-> [req |-> q, res |-> r], ret |-> <<>>] :
                 q \in Requests, r \in Responses}

\* the limiter is selected from the response
FromRes ==
  /\ call.op = "none"
  /\ call' = [call EXCEPT !.op = "from_res", !.ret = from_res(call.arg.res)]
  /\ UNCHANGED <<inner, poisoned, io, peer, rf, ss, rs, conn, log>>

\* connect decides whether the stream goes back to the pool
KeepAlive ==
  /\ call.op = "none"
  /\ call' = [call EXCEPT !.op = "keep_alive",
                          !.ret = keep_alive_possible(call.arg.req, call.arg.res)]
  /\ UNCHANGED <<inner, poisoned, io, peer, rf, ss, rs, conn, log>>

NextHeader == FromRes \/ KeepAlive

HeaderSpec == HeaderInit /\ [][NextHeader]_vars

\* ------------------------------------------------------------------ body sources
\* A Body over a source other than the H1 engine.  The body is the arg of
\* `call`: imp is the BodyImpl variant, src the chunks its source has yet to
\* give (what poll_data returns one by one for Http2, what the reader returns
\* for a request body), leftover is leftover_bytes (<<>> for None), read_buf
\* is read_buf[0 .. read_buf_end].  History: got, the bytes delivered; fed,
\* the chunks poll_data has returned; early, whether poll_data was called
\* with bytes still held.
RequestImps == {"RequestEmpty", "RequestAsyncRead", "RequestRead"}

RECURSIVE Flatten(_)
Flatten(chunks) == IF chunks = <<>> THEN <<>> ELSE Head(chunks) \o Flatten(Tail(chunks))

\* the bytes of a source, numbered in order, cut into chunks of these lengths
RECURSIVE Chunked(_, _)
Chunked(lens, from) ==
  IF lens = <<>> THEN <<>>
  ELSE <<[i \in 1 .. Head(lens) |-> from + i]>> \o Chunked(Tail(lens), from + Head(lens))

ChunkLens ==
  UNION {[1 .. k -> 0 .. MaxChunk] : k \in 0 .. MaxChunks2}

\* BodyReader::new under BodyCodec::new under Body::new
NewBody(imp, codec_kind, src) ==
  [imp |-> imp, codec |-> BodyCodec_new(codec_kind), has_read |-> FALSE,
   src |-> src, leftover |-> <<>>, read_buf |-> <<>>, is_finished |-> FALSE,
   st |-> "Open", got |-> <<>>, fed |-> <<>>, early |-> FALSE]

\* BodyReader::bytes_to_buf into a buf of n bytes: the bytes copied and the
\* remainder kept
bytes_to_buf_NoLeftover(data, n) == [read |-> Take(data, n), leftover |-> <<>>]

bytes_to_buf(data, n) == [read |-> Take(data, n), leftover |-> Drop(data, n)]

\* the read of poll_read_to_buf from the source of b into a buf of n bytes
\* (no read of the model is pending or fails)
ImpRead(b, n) ==
  CASE b.imp = "RequestEmpty" -> [read |-> <<>>, b |-> b]
    [] b.imp \in {"RequestAsyncRead", "RequestRead"} ->
         [read |-> Take(Flatten(b.src), n),
          b |-> [b EXCEPT !.src = IF Len(Flatten(b.src)) > n
                                  THEN <<Drop(Flatten(b.src), n)>> ELSE <<>>]]
    [] b.imp = "Http2" ->
         IF b.src = <<>> THEN [read |-> <<>>, b |-> b]
         ELSE [read |-> bytes_to_buf(Head(b.src), n).read,
               b |-> [b EXCEPT !.src = Tail(@),
                               !.leftover = bytes_to_buf(Head(b.src), n).leftover,
                               !.fed = @ \o Head(b.src),
                               !.early = @ \/ b.leftover # <<>> \/ b.read_buf # <<>>]]

\* the end of poll_read_to_buf: a read of 0 finishes the body
ReadToBuf(q) ==
  [q EXCEPT !.b.is_finished = IF q.read = <<>> THEN TRUE ELSE @]

\* BodyReader::poll_read_to_buf into a buf of n bytes
poll_read_to_buf_of(b, n) ==
  IF b.is_finished THEN [read |-> <<>>, b |-> b]
  ELSE IF b.leftover # <<>>
  THEN [read |-> bytes_to_buf(b.leftover, n).read,
        b |-> [b EXCEPT !.leftover = bytes_to_buf(b.leftover, n).leftover]]
  ELSE Let(ReadToBuf, ImpRead(b, n))

\* the copy out of the read buffer at the end of BodyReader::poll_read
CopyOutOf(b, n) ==
  [read |-> Take(b.read_buf, n), b |-> [b EXCEPT !.read_buf = Drop(@, n)]]

\* BodyReader::poll_read after do_poll_fill, f being the fill
FilledOf(f, n) ==
  IF f.read = <<>> THEN f ELSE CopyOutOf([f.b EXCEPT !.read_buf = f.read], n)

\* BodyReader::poll_read (with do_poll_fill) into a caller buffer of n bytes
BodyReader_poll_read_of(b, n) ==
  IF b.read_buf # <<>> THEN CopyOutOf(b, n)
  ELSE IF b.is_finished THEN [read |-> <<>>, b |-> b]
  ELSE Let(LAMBDA f : FilledOf(f, n), poll_read_to_buf_of(b, BUF_SIZE))

\* BodyReader::into_connection of a body that is not an H1 response:
\* is_http11 is false, so nothing is read
BodyReader_into_connection_of(b) ==
  IF b.imp = "Http2" THEN "Ok" ELSE "Err"

\* Body::into_connection: BodyCodec::into_inner, then
\* BodyReader::into_connection
Body_into_connection_of(b) ==
  IF b.codec = "Deferred" THEN "Panic" ELSE BodyReader_into_connection_of(b)

\* The constructors of a request body (Body::empty, from_async_read,
\* from_sync_read) choose ContentEncoding::Deferred; the body of an H2
\* response is built by Body::new.
ReaderInit ==
  /\ EngineInit
  /\ call \in {[op |-> "none", ret |-> "none", arg |-> NewBody(imp, "Deferred", Chunked(lens, 0))] :
                 imp \in RequestImps, lens \in {l \in ChunkLens : Len(l) <= 1}}
         \cup {[op |-> "none", ret |-> "none", arg |-> NewBody("Http2", kind, Chunked(lens, 0))] :
                 kind \in {"Deferred", "Plain"}, lens \in ChunkLens}

\* Body::resolve_deferred(codec_kind) on the body
ReaderResolve(codec_kind) ==
  /\ call.arg.st = "Open"
  /\ call' = [op |-> "resolve_deferred", ret |-> resolve_deferred(call.arg, codec_kind).ret,
              arg |-> resolve_deferred(call.arg, codec_kind).body]
  /\ UNCHANGED <<inner, poisoned, io, peer, rf, ss, rs, conn, log>>

ReaderReadDone(q) ==
  call' = [op |-> "read", ret |-> q.read, arg |-> [q.b EXCEPT !.got = @ \o q.read]]

\* one read of the body into a caller buffer of n bytes, its codec Plain
ReaderRead(n) ==
  /\ call.arg.st = "Open"
  /\ call.arg.codec = "Plain"
  /\ \E q \in {BodyReader_poll_read_of([call.arg EXCEPT !.has_read = TRUE], n)} :
       ReaderReadDone(q)
  /\ UNCHANGED <<inner, poisoned, io, peer, rf, ss, rs, conn, log>>

\* Body::into_connection; the call consumes the body
ReaderIntoConnection ==
  /\ call.arg.st = "Open"
  /\ call' = [op |-> "into_connection", ret |-> Body_into_connection_of(call.arg),
              arg |-> [call.arg EXCEPT !.st = "Consumed"]]
  /\ UNCHANGED <<inner, poisoned, io, peer, rf, ss, rs, conn, log>>

NextReader ==
  \/ \E kind \in ContentEncodings : ReaderResolve(kind)
  \/ \E n \in 1 .. BUF_SIZE + 1 : ReaderRead(n)
  \/ ReaderIntoConnection

ReaderSpec == ReaderInit /\ [][NextReader]_vars

\* ------------------------------------------------------------------ request head
\* Header: the line "name: value", split at the colon (header.rs 7-10, 96-110);
\* value() is the rest of the line, trimmed
Header(name, value) == [name |-> name, value |-> value]

\* str::to_ascii_lowercase, on the names and values of the model
to_ascii_lowercase(w) ==
  CASE w = "Host" -> "host"
    [] w = "Expect" -> "expect"
    [] w = "Content-Length" -> "content-length"
    [] w = "Transfer-Encoding" -> "transfer-encoding"
    [] w = "Cookie" -> "cookie"
    [] w = "X-A" -> "x-a"
    [] w = "100-Continue" -> "100-continue"
    [] w = "A" -> "a"
    [] OTHER -> w

\* str::eq_ignore_ascii_case
eq_ignore_ascii_case(a, b) == to_ascii_lowercase(a) = to_ascii_lowercase(b)

\* Header::is_name
is_name(header, other) == eq_ignore_ascii_case(header.name, other)

\* Header::is_value
is_value(header, other, ignore_case) ==
  IF ignore_case THEN eq_ignore_ascii_case(header.value, other) ELSE header.value = other

\* no value, and the value of a header
NoValue == [some |-> FALSE, value |-> ""]
SomeValue(v) == [some |-> TRUE, value |-> v]

\* headers.iter().find(|h| h.is_name(name)).map(|h| h.value())
get_header(headers, name) ==
  LET found == SelectSeq(headers, LAMBDA h : is_name(h, name))
  IN IF found = <<>> THEN NoValue ELSE SomeValue(found[1].value)

\* get_header(headers, name).is_some()
has_header(headers, name) == get_header(headers, name).some

\* header.name().to_lowercase().starts_with("x-"), on the names of the model
starts_with_x(name) == to_ascii_lowercase(name) \in {"x-a"}

\* add_header: a header replaces those of exactly its name, unless the name starts with x-
add_header(headers, header) ==
  IF ~starts_with_x(header.name)
  THEN Append(SelectSeq(headers, LAMBDA h : h.name # header.name), header)
  ELSE Append(headers, header)

\* the caller sets these header lines, one after the other, on a new request
RECURSIVE SetAll(_, _)
SetAll(headers, lines) ==
  IF lines = <<>> THEN headers ELSE SetAll(add_header(headers, Head(lines)), Tail(lines))

\* combine_query (unit.rs): the url's query and the request's, joined by &
combine_query(url_query, query) ==
  IF url_query.some /\ query # "" THEN <<"?", url_query.value, "&", query>>
  ELSE IF url_query.some THEN <<"?", url_query.value>>
  ELSE IF query # "" THEN <<"?", query>>
  ELSE <<>>

\* connect (conn.rs): query_string
conn_query_string(url_query, query) ==
  IF url_query.some /\ query # "" THEN <<"?", url_query.value, query>>
  ELSE IF url_query.some THEN <<"?", url_query.value>>
  ELSE IF query # "" THEN <<"?", query>>
  ELSE <<>>

\* body.size: Option<usize>
NoSize == [some |-> FALSE, n |-> 0]
SomeSize(n) == [some |-> TRUE, n |-> n]

\* format!("{}", size), of the sizes of the model
Decimal(n) == <<"0", "1", "2", "3", "4", "5", "6", "7", "8", "9">>[n + 1]

\* extra_headers of Unit::new and of connect (conn.rs)
extra_headers(is_chunked, headers, size) ==
  IF ~is_chunked /\ ~has_header(headers, "content-length") /\ size.some
  THEN <<Header("Content-Length", Decimal(size.n))>>
  ELSE <<>>

\* req.header("transfer-encoding").map(|enc| enc.len() > 0).unwrap_or(false)
is_chunked_of(headers) ==
  LET enc == get_header(headers, "transfer-encoding")
  IN enc.some /\ enc.value # ""

\* Unit::new; cookie_headers is what match_cookies finds in the agent's jar
Unit_new(req, url, body, cookie_headers) ==
  LET is_chunked == is_chunked_of(req.headers)
  IN [url |-> url,
      is_chunked |-> is_chunked,
      query_string |-> combine_query(url.query, req.query),
      headers |-> req.headers \o cookie_headers
                    \o extra_headers(is_chunked, req.headers, body)]

\* the lines of a request head
RequestLine(method, path, query_string) == <<method, " ", path, query_string, " HTTP/1.1">>
HostLine(host) == <<"Host", ": ", host>>
HeaderLine(header) == <<header.name, ": ", header.value>>
EmptyLine == <<>>

\* the loop of send_prelude over unit.headers
RECURSIVE write_headers(_, _)
write_headers(headers, use_expect100) ==
  IF headers = <<>> THEN <<>>
  ELSE LET header == Head(headers)
       IN IF ~use_expect100 /\ is_name(header, "expect")
               /\ is_value(header, "100-continue", TRUE)
          THEN write_headers(Tail(headers), use_expect100)
          ELSE <<HeaderLine(header)>> \o write_headers(Tail(headers), use_expect100)

\* send_prelude: the bytes handed to stream.write_all, line by line
send_prelude(unit, method, use_expect100) ==
  <<RequestLine(method, unit.url.path, unit.query_string)>>
    \o (IF ~has_header(unit.headers, "host") THEN <<HostLine(unit.url.host)>> ELSE <<>>)
    \o write_headers(unit.headers, use_expect100)
    \o <<EmptyLine>>

\* ConnParams::new
ConnParams_new(body) == [use_pooled |-> TRUE, use_expect100 |-> TRUE, redirects |-> 5, body |-> body]

\* connect (unit.rs), up to the prelude it writes
connect(unit, method, params) ==
  LET expect == get_header(unit.headers, "expect")
      has_expect100 == expect.some /\ eq_ignore_ascii_case(expect.value, "100-continue")
      send_expect100 == params.use_expect100 /\ has_expect100
  IN send_prelude(unit, method, send_expect100)

\* connect (conn.rs), up to the prelude it writes
conn_connect(request, method, url, body, cookie_headers) ==
  LET do_chunk == is_chunked_of(request.headers)
      query_string == conn_query_string(url.query, request.query)
      headers == request.headers \o cookie_headers
                   \o extra_headers(do_chunk, request.headers, body)
  IN <<RequestLine(method, url.path, query_string)>>
       \o (IF ~has_header(request.headers, "host") THEN <<HostLine(url.host)>> ELSE <<>>)
       \o [i \in 1 .. Len(headers) |-> HeaderLine(headers[i])]
       \o <<EmptyLine>>

\* the header lines a caller sets
CallerLines ==
  {Header("Host", "a.test"), Header("host", "b.test"),
   Header("Expect", "100-continue"), Header("expect", "100-Continue"), Header("Expect", "x"),
   Header("Content-Length", "1"), Header("Transfer-Encoding", "chunked"),
   Header("Transfer-Encoding", ""), Header("X-A", "1")}

RECURSIVE SeqsUpTo(_, _)
SeqsUpTo(S, n) ==
  IF n = 0 THEN {<<>>}
  ELSE LET shorter == SeqsUpTo(S, n - 1)
       IN shorter \cup {Append(q, x) : q \in shorter, x \in S}

RequestMethods == {"GET", "POST"}
Urls == [path : {"/p"}, host : {"h.test"}, query : {NoValue, SomeValue("u=1")}]
CallerRequests ==
  {[method |-> m, query |-> q, headers |-> SetAll(<<>>, lines)] :
     m \in RequestMethods, q \in {"", "q=1"}, lines \in SeqsUpTo(CallerLines, MaxHeaders)}
BodySizes == {NoSize} \cup {SomeSize(n) : n \in {0, 2}}
CookieHeaders == {<<>>, <<Header("Cookie", "c=1")>>}

\* a request the caller has built, about to be sent
RequestInit ==
  /\ EngineInit
  /\ call \in {[op |-> "none", ret |-> <<>>,
                arg |-> [req |-> q, url |-> u, body |-> b, cookies |-> c]] :
                 q \in CallerRequests, u \in Urls, b \in BodySizes, c \in CookieHeaders}

\* Request::call: the unit of work is made from the request
UnitNew ==
  /\ call.op = "none"
  /\ call' = [call EXCEPT !.op = "Unit_new",
                !.ret = Unit_new(call.arg.req, call.arg.url, call.arg.body, call.arg.cookies)]
  /\ UNCHANGED <<inner, poisoned, io, peer, rf, ss, rs, conn, log>>

\* the unit is connected: the request head is written
UnitConnect ==
  /\ call.op = "none"
  /\ call' = [call EXCEPT !.op = "send_prelude",
                !.ret = connect(Unit_new(call.arg.req, call.arg.url, call.arg.body,
                                         call.arg.cookies),
                                call.arg.req.method, ConnParams_new(call.arg.body))]
  /\ UNCHANGED <<inner, poisoned, io, peer, rf, ss, rs, conn, log>>

\* connect of conn.rs writes the request head
ConnConnect ==
  /\ call.op = "none"
  /\ call' = [call EXCEPT !.op = "conn_prelude",
                !.ret = conn_connect(call.arg.req, call.arg.req.method, call.arg.url,
                                     call.arg.body, call.arg.cookies)]
  /\ UNCHANGED <<inner, poisoned, io, peer, rf, ss, rs, conn, log>>

NextRequestHead == UnitNew \/ UnitConnect \/ ConnConnect

RequestSpec == RequestInit /\ [][NextRequestHead]_vars

\* ------------------------------------------------------------------ response reader
\* Response::into_reader: the reader over the response's stream
into_reader(res) ==
  LET enc == res.transfer_encoding
      is_chunked == enc.has /\ (enc.num \/ enc.word # "")
      len == ParseU64(res.content_length)
  IN IF is_chunked THEN [kind |-> "Chunked", limit |-> 0, position |-> 0]
     ELSE IF len.some THEN [kind |-> "LimitedRead", limit |-> len.n, position |-> 0]
     ELSE [kind |-> "Stream", limit |-> 0, position |-> 0]

\* the part of a buffer of n bytes that LimitedRead::read hands to the stream
LimitedFrom(reader, n) ==
  LET left == reader.limit - reader.position
  IN IF left < n THEN left ELSE n

\* the amounts Stream::read may return for a buffer of n bytes with avail bytes
\* still to come before the end of the stream
StreamAmounts(n, avail) == IF n = 0 \/ avail = 0 THEN {0} ELSE 1 .. Min(n, avail)

\* LimitedRead::read, the stream returning amount
LimitedRead_read(reader, amount) == [reader EXCEPT !.position = @ + amount]

TransferEncodings == {Absent, Word("chunked"), Word("gzip"), Word("")}
SentLens == 0 .. MaxSent

\* a response head has been read; the server sends sent body bytes and closes
ResponseInit ==
  /\ EngineInit
  /\ call \in {[op |-> "none", ret |-> [kind |-> "None", limit |-> 0, position |-> 0],
                arg |-> [res |-> [transfer_encoding |-> te, content_length |-> cl],
                         sent |-> n],
                taken |-> 0, got |-> 0, zero |-> FALSE] :
                 te \in TransferEncodings, cl \in Lengths, n \in SentLens}

\* the caller turns the response into a reader
IntoReader ==
  /\ call.op = "none"
  /\ call' = [call EXCEPT !.op = "into_reader", !.ret = into_reader(call.arg.res)]
  /\ UNCHANGED <<inner, poisoned, io, peer, rf, ss, rs, conn, log>>

\* the caller reads into a buffer of n bytes from a LimitedRead
LimitedReadRead(n) ==
  /\ call.op = "into_reader" /\ call.ret.kind = "LimitedRead" /\ ~call.zero
  /\ \E amount \in StreamAmounts(LimitedFrom(call.ret, n), call.arg.sent - call.taken) :
       call' = [call EXCEPT !.ret = LimitedRead_read(call.ret, amount),
                            !.taken = @ + amount, !.got = @ + amount,
                            !.zero = (amount = 0)]
  /\ UNCHANGED <<inner, poisoned, io, peer, rf, ss, rs, conn, log>>

\* the caller reads into a buffer of n bytes from the stream itself
UntilEndRead(n) ==
  /\ call.op = "into_reader" /\ call.ret.kind = "Stream" /\ ~call.zero
  /\ \E amount \in StreamAmounts(n, call.arg.sent - call.taken) :
       call' = [call EXCEPT !.taken = @ + amount, !.got = @ + amount,
                            !.zero = (amount = 0)]
  /\ UNCHANGED <<inner, poisoned, io, peer, rf, ss, rs, conn, log>>

NextResponse ==
  \/ IntoReader
  \/ \E n \in 1 .. BUF_SIZE : LimitedReadRead(n)
  \/ \E n \in 1 .. BUF_SIZE : UntilEndRead(n)

ResponseSpec == ResponseInit /\ [][NextResponse]_vars

\* ------------------------------------------------------------------ header parsing
\* the characters of a line: letters, the colon, the space, and one character
\* outside ASCII
Chars == {"a", "A", ":", " ", "NonAscii"}
is_ascii(c) == c # "NonAscii"
is_whitespace(c) == c = " "

\* str::find(":") taking the last colon
RECURSIVE find_Last(_, _)
find_Last(s, c) ==
  IF s = <<>> THEN [some |-> FALSE, index |-> 0]
  ELSE IF s[Len(s)] = c THEN [some |-> TRUE, index |-> Len(s) - 1]
  ELSE find_Last(SubSeq(s, 1, Len(s) - 1), c)

\* str::find(":"): the index, from 0, of the first match
RECURSIVE find(_, _)
find(s, c) ==
  IF s = <<>> THEN [some |-> FALSE, index |-> 0]
  ELSE IF Head(s) = c THEN [some |-> TRUE, index |-> 0]
  ELSE LET rest == find(Tail(s), c)
       IN IF rest.some THEN [some |-> TRUE, index |-> rest.index + 1] ELSE rest

\* str::trim
RECURSIVE trim(_)
trim(s) ==
  IF s = <<>> THEN s
  ELSE IF is_whitespace(Head(s)) THEN trim(Tail(s))
  ELSE IF is_whitespace(s[Len(s)]) THEN trim(SubSeq(s, 1, Len(s) - 1))
  ELSE s

BadHeader == [ok |-> FALSE, line |-> <<>>, index |-> 0]

\* impl FromStr for Header
from_str(s) ==
  IF \E i \in 1 .. Len(s) : ~is_ascii(s[i]) THEN BadHeader
  ELSE LET index == find(s, ":")
       IN IF ~index.some THEN BadHeader
          ELSE IF index.index >= Len(s) THEN BadHeader
          ELSE [ok |-> TRUE, line |-> s, index |-> index.index]

\* Header::name: &line[0..index]
Header_name(header) == SubSeq(header.line, 1, header.index)

\* Header::value: &line[index + 1..].trim()
Header_value(header) == trim(SubSeq(header.line, header.index + 2, Len(header.line)))

\* str::to_ascii_lowercase, character by character
LowerChars(s) == [i \in 1 .. Len(s) |-> to_ascii_lowercase(s[i])]

\* Header::is_name and Header::is_value, of a parsed line
Header_is_name(header, other) == LowerChars(Header_name(header)) = LowerChars(other)
Header_is_value(header, other, ignore_case) ==
  IF ignore_case THEN LowerChars(Header_value(header)) = LowerChars(other)
  ELSE Header_value(header) = other

\* a line about to be parsed
ParseInit ==
  /\ EngineInit
  /\ call \in {[op |-> "none", arg |-> s, ret |-> BadHeader] : s \in SeqsUpTo(Chars, MaxLine)}

\* line.parse::<Header>()
ParseHeader ==
  /\ call.op = "none"
  /\ call' = [call EXCEPT !.op = "from_str", !.ret = from_str(call.arg)]
  /\ UNCHANGED <<inner, poisoned, io, peer, rf, ss, rs, conn, log>>

ParseSpec == ParseInit /\ [][ParseHeader]_vars

\* ------------------------------------------------------------------ header list
\* the header lines added to one list
AddedLines ==
  {Header("Host", "a.test"), Header("host", "b.test"), Header("Host", "c.test"),
   Header("X-A", "1"), Header("X-A", "2"), Header("x-a", "3")}

\* a new, empty list of headers
HeaderListInit ==
  /\ EngineInit
  /\ call = [op |-> "new", headers |-> <<>>, added |-> <<>>]

\* add_header(&mut headers, header)
AddHeader(header) ==
  /\ Len(call.added) < MaxAdds
  /\ call' = [op |-> "add_header", headers |-> add_header(call.headers, header),
              added |-> Append(call.added, header)]
  /\ UNCHANGED <<inner, poisoned, io, peer, rf, ss, rs, conn, log>>

NextHeaderList == \E header \in AddedLines : AddHeader(header)

HeaderListSpec == HeaderListInit /\ [][NextHeaderList]_vars

\* ------------------------------------------------------------------ response head scan
\* the bytes a peer sends as its response: line ends and other bytes
WireBytes == {CR, LF, HdrNone}
Wires == SeqsUpTo(WireBytes, MaxWire)

\* the caller sends its one request, without a body
FirstRequest ==
  /\ inner.next_seq = 0
  /\ NextRequest(TRUE)

\* the peer, having the head of the request, answers with wire; the bytes
\* arrive one by one
PeerAnswers(wire) ==
  /\ peer.n = 0 /\ peer.plan = <<>> /\ ~io.rxEof /\ inner.state # "Closed"
  /\ HeadWritten(0)
  /\ wire # <<>>
  /\ peer' = [n |-> 1, plan |-> [i \in 1 .. Len(wire) |-> <<wire[i]>>]]
  /\ UNCHANGED <<inner, poisoned, io, rf, ss, rs, conn, log, call>>

\* One request whose response is any bytes, arriving in any split between the
\* polls of the engine; the peer may close at any point.
NextScan ==
  \/ FirstRequest
  \/ ResponseFuturePoll(0)
  \/ \E cap \in {0, HeadLen} : ConnectionPoll(cap, FALSE)
  \/ \E wire \in Wires : PeerAnswers(wire)
  \/ PeerSend
  \/ PeerClose

ScanSpec == Init /\ [][NextScan]_vars

\* ------------------------------------------------------------------ failing serialization
\* Requests of which any may fail to serialize, on a transport that stays open
\* and never fails; the caller polls its futures, the peer answers.
NextSerialize ==
  \/ \E end \in BOOLEAN, ok \in BOOLEAN : SendRequest(end, ok)
  \/ \E seq \in Seqs : ResponseFuturePoll(seq)
  \/ \E cap \in {0, HeadLen} : ConnectionPoll(cap, FALSE)
  \/ PeerStart(HdrLen)
  \/ PeerSend

SerializeSpec == Init /\ [][NextSerialize]_vars

\* ------------------------------------------------------------------ default runtime
\* RUNTIME and HANDLE are OnceCells: Incomplete, Running (a thread is inside
\* the cell's initializer; every other get_or_init and set on the cell waits)
\* or Complete with a value.  A runtime is named by the number of its
\* creation, and so is its handle.
EmptyCell == [state |-> "Incomplete", by |-> <<>>, value |-> 0]

\* the threads that call AsyncImpl::block_on and AsyncImpl::spawn
Callers == {<<f, i>> : f \in {"block_on", "spawn"}, i \in 1 .. MaxCallers}

\* with_runtime initializes RUNTIME and sets HANDLE; with_handle the reverse
OwnCell(t) == IF t[1] = "block_on" THEN "RUNTIME" ELSE "HANDLE"
OtherCell(t) == IF t[1] = "block_on" THEN "HANDLE" ELSE "RUNTIME"

\* no call has been made
LazyInit ==
  /\ EngineInit
  /\ call = [op |-> "lazy", RUNTIME |-> EmptyCell, HANDLE |-> EmptyCell,
             pc |-> [t \in Callers |-> "idle"], rt |-> [t \in Callers |-> 0],
             created |-> 0, locked |-> <<>>]

\* OnceCell::get_or_init of with_runtime (RUNTIME) and with_handle (HANDLE):
\* the value if there is one, else the thread enters the initializer
get_or_init(t) ==
  /\ call.pc[t] = "idle"
  /\ call[OwnCell(t)].state # "Running"
  /\ call' = IF call[OwnCell(t)].state = "Complete"
             THEN [call EXCEPT !.pc[t] = "got"]
             ELSE [call EXCEPT !.pc[t] = "create",
                               ![OwnCell(t)] = [state |-> "Running", by |-> t, value |-> 0]]
  /\ UNCHANGED <<inner, poisoned, io, peer, rf, ss, rs, conn, log>>

\* create_default_runtime, inside the initializer
create_default_runtime(t) ==
  /\ call.pc[t] = "create"
  /\ call' = [call EXCEPT !.pc[t] = "set", !.rt[t] = call.created + 1,
                          !.created = @ + 1]
  /\ UNCHANGED <<inner, poisoned, io, peer, rf, ss, rs, conn, log>>

\* HANDLE.set(h).expect(..) of with_runtime and RUNTIME.set(..).expect(..) of
\* with_handle, inside the initializer: the set waits while the other cell is
\* Running, and the expect panics when the other cell has a value; the panic
\* unwinds the initializer, which leaves the thread's own cell Incomplete
set_other(t) ==
  /\ call.pc[t] = "set"
  /\ call[OtherCell(t)].state # "Running"
  /\ call' = IF call[OtherCell(t)].state = "Complete"
             THEN [call EXCEPT !.pc[t] = "panic", ![OwnCell(t)] = EmptyCell]
             ELSE [call EXCEPT !.pc[t] = "finish",
                               ![OtherCell(t)] = [state |-> "Complete", by |-> <<>>,
                                                  value |-> call.rt[t]]]
  /\ UNCHANGED <<inner, poisoned, io, peer, rf, ss, rs, conn, log>>

\* the initializer returns its value, which the cell keeps
init_return(t) ==
  /\ call.pc[t] = "finish"
  /\ call' = [call EXCEPT !.pc[t] = "got",
                          ![OwnCell(t)] = [state |-> "Complete", by |-> <<>>,
                                           value |-> call.rt[t]]]
  /\ UNCHANGED <<inner, poisoned, io, peer, rf, ss, rs, conn, log>>

\* with_runtime: .lock().unwrap() on the Mutex around the runtime
lock_runtime(t) ==
  /\ call.pc[t] = "got" /\ t[1] = "block_on"
  /\ call.locked = <<>>
  /\ call' = [call EXCEPT !.pc[t] = "run", !.locked = t]
  /\ UNCHANGED <<inner, poisoned, io, peer, rf, ss, rs, conn, log>>

\* with_runtime: f(&mut rt) has run the future to its end; the guard is dropped
block_on_done(t) ==
  /\ call.pc[t] = "run"
  /\ call' = [call EXCEPT !.pc[t] = "done", !.locked = <<>>]
  /\ UNCHANGED <<inner, poisoned, io, peer, rf, ss, rs, conn, log>>

\* with_handle: the handle is cloned and f(h) spawns the task on it
with_handle_done(t) ==
  /\ call.pc[t] = "got" /\ t[1] = "spawn"
  /\ call' = [call EXCEPT !.pc[t] = "done"]
  /\ UNCHANGED <<inner, poisoned, io, peer, rf, ss, rs, conn, log>>

NextLazy ==
  \E t \in Callers :
    \/ get_or_init(t)
    \/ create_default_runtime(t)
    \/ set_other(t)
    \/ init_return(t)
    \/ lock_runtime(t)
    \/ block_on_done(t)
    \/ with_handle_done(t)

LazySpec == LazyInit /\ [][NextLazy]_vars

\* ---- connect: pooled connections, retry and redirects (unit.rs)

\* Response::redirect
redirect(status) == status >= 300 /\ status <= 399

Statuses == {200, 301, 307, 404}
Locations == {"none", "ok", "bad"}
ReadOutcomes == {"ok", "timeout", "error"}

\* one call of Request::call: connect is entered with ConnParams::new
ConnectInit ==
  /\ EngineInit
  /\ call \in {[op |-> "connect", pc |-> "socket", method |-> m, expect |-> e,
                params |-> ConnParams_new("body"), is_recycled |-> FALSE, send_ok |-> TRUE,
                result |-> "none", followed |-> 0, retries |-> 0, calls |-> 1,
                failedPooled |-> FALSE, failedFresh |-> FALSE, status |-> 0, remaining |-> 0] :
                 m \in RequestMethods, e \in BOOLEAN}

\* send_expect100 of connect
send_expect100(c) == c.params.use_expect100 /\ c.expect

\* a followed redirect: params.redirects -= 1, then connect again
follow_Same(c, method, body) ==
  [c EXCEPT !.pc = "socket", !.method = method, !.params.body = body,
            !.followed = @ + 1, !.calls = @ + 1]

follow(c, method, body) ==
  [c EXCEPT !.pc = "socket", !.method = method, !.params.body = body,
            !.params.redirects = @ - 1, !.followed = @ + 1, !.calls = @ + 1]

\* connect from `if send_result.is_err()` to the response being read
after_send(c) ==
  IF ~c.send_ok
  THEN IF c.is_recycled
       THEN [c EXCEPT !.params.use_pooled = FALSE, !.pc = "socket",
                      !.retries = @ + 1, !.calls = @ + 1]
       ELSE [c EXCEPT !.pc = "done", !.result = "Io"]
  ELSE [c EXCEPT !.pc = "response"]

\* connect_socket: a pooled stream if one is wanted and there, else a new one
ConnectSocket(pooled, opened) ==
  /\ call.op = "connect" /\ call.pc = "socket"
  /\ call' = IF call.params.use_pooled /\ pooled
             THEN [call EXCEPT !.pc = "send", !.is_recycled = TRUE]
             ELSE IF opened THEN [call EXCEPT !.pc = "send", !.is_recycled = FALSE]
             ELSE [call EXCEPT !.pc = "done", !.result = "Connect"]
  /\ UNCHANGED <<inner, poisoned, io, peer, rf, ss, rs, conn, log>>

\* send_prelude returns; without Expect the send result is looked at next
SendPrelude(ok) ==
  /\ call.op = "connect" /\ call.pc = "send"
  /\ call' = IF send_expect100(call)
             THEN [call EXCEPT !.pc = "expect", !.send_ok = ok,
                     !.failedPooled = @ \/ (~ok /\ call.is_recycled),
                     !.failedFresh = @ \/ (~ok /\ ~call.is_recycled)]
             ELSE after_send([call EXCEPT !.send_ok = ok,
                     !.failedPooled = @ \/ (~ok /\ call.is_recycled),
                     !.failedFresh = @ \/ (~ok /\ ~call.is_recycled)])
  /\ UNCHANGED <<inner, poisoned, io, peer, rf, ss, rs, conn, log>>

\* do_expect100(..)?: the read of the 100 response succeeds, times out or fails
DoExpect100(outcome) ==
  /\ call.op = "connect" /\ call.pc = "expect"
  /\ call' = IF outcome = "error"
             THEN [call EXCEPT !.pc = "done", !.result = "Io"]
             ELSE after_send(call)
  /\ UNCHANGED <<inner, poisoned, io, peer, rf, ss, rs, conn, log>>

\* the response head is read: redirects are followed, anything else is returned
ReadResponse(status, location, body_ok) ==
  /\ call.op = "connect" /\ call.pc = "response"
  /\ call' =
       LET c == [call EXCEPT !.status = status, !.remaining = call.params.redirects]
       IN IF redirect(status) /\ c.params.redirects = 0
          THEN [c EXCEPT !.pc = "done", !.result = "TooManyRedirects"]
          ELSE IF redirect(status) /\ location = "bad"
          THEN [c EXCEPT !.pc = "done", !.result = "BadUrl"]
          ELSE IF redirect(status) /\ location = "ok"
          THEN IF status \in {301, 302, 303}
               THEN IF body_ok THEN follow(c, "GET", "empty")
                    ELSE [c EXCEPT !.pc = "done", !.result = "Io"]
               ELSE follow(c, c.method, c.params.body)
          ELSE IF body_ok THEN [c EXCEPT !.pc = "done", !.result = "Ok"]
               ELSE [c EXCEPT !.pc = "done", !.result = "Io"]
  /\ UNCHANGED <<inner, poisoned, io, peer, rf, ss, rs, conn, log>>

NextConnect ==
  \/ \E pooled \in BOOLEAN, opened \in BOOLEAN : ConnectSocket(pooled, opened)
  \/ \E ok \in BOOLEAN : SendPrelude(ok)
  \/ \E outcome \in ReadOutcomes : DoExpect100(outcome)
  \/ \E status \in Statuses, location \in Locations, body_ok \in BOOLEAN :
       ReadResponse(status, location, body_ok)

ConnectSpec == ConnectInit /\ [][NextConnect]_vars

\* ---- the response body read from the RecvStream itself

\* RecvStream::read of seq into a caller buffer of n bytes, n = 0 included
RecvStreamRead(seq, n) ==
  /\ rs[seq].st = "Open"
  /\ Len(rs[seq].got) < MaxGot
  /\ \E q \in {RecvStream_read(inner, rs[seq], seq, n)} : BodyReadDone(seq, q)
  /\ UNCHANGED <<poisoned, io, peer, rf, ss, log, call>>

\* one request without a body; its response is read from the RecvStream
NextStream ==
  \/ FirstRequest
  \/ ResponseFuturePoll(0)
  \/ \E n \in 0 .. BUF_SIZE : RecvStreamRead(0, n)
  \/ \E cap \in {0, HeadLen} : ConnectionPoll(cap, FALSE)
  \/ \E tag \in {HdrLen, HdrClose, HdrNone} : PeerStart(tag)
  \/ PeerSend
  \/ PeerClose

StreamSpec == Init /\ [][NextStream]_vars

\* ------------------------------------------------------------------ properties
IsStateEntry(x) == x.t = "s"
\* the state changes of the engine, in order
StateLog == SelectSeq(log, IsStateEntry)

\* The transitions of the state machine: from, to, and the step that takes it.
\* IoError is the step of a task whose poll returned an io::Error: one of the
\* transport, or the UnexpectedEof RecvRes makes of a read of 0 bytes.
Transitions ==
  {<<"Ready", "SendBody", "SendReqMore">>,
   <<"Ready", "Waiting", "SendReqEnd">>,
   <<"SendBody", "Waiting", "ChunkEnd">>,
   <<"Waiting", "RecvBody", "HeaderFound">>,
   <<"RecvBody", "Ready", "ReadZeroReuse">>,
   <<"RecvBody", "Closed", "ReadZeroClose">>}
    \cup {<<from, "Closed", "IoError">> :
            from \in {"Ready", "SendBody", "Waiting", "RecvBody"}}

\* C1: starting from Ready, every change of Inner.state is a transition of the
\* state machine, taken by the step the machine names for it: the changes the
\* engine made form a walk from Ready to the present state, and each is
\* Ready->SendBody or Ready->Waiting on a written SendReq, SendBody->Waiting on
\* a written chunk with end, Waiting->RecvBody on the terminator,
\* RecvBody->Ready or RecvBody->Closed on a read of 0 bytes, or ->Closed on an
\* io::Error.
C1_StateWalk ==
  /\ \A k \in 1 .. Len(StateLog) :
       /\ <<StateLog[k].from, StateLog[k].to, StateLog[k].kind>> \in Transitions
       /\ StateLog[k].from = IF k = 1 THEN "Ready" ELSE StateLog[k - 1].to
  /\ inner.state = IF StateLog = <<>> THEN "Ready" ELSE StateLog[Len(StateLog)].to
  /\ \A i \in 1 .. Len(log) :
       log[i].t = "s" /\ log[i].kind \in {"SendReqMore", "SendReqEnd", "ChunkEnd"}
         => /\ i > 1
            /\ log[i - 1].t = "w" /\ log[i - 1].fin /\ log[i - 1].seq = log[i].seq
            /\ log[i - 1].kind = IF log[i].kind = "ChunkEnd" THEN "SendBody" ELSE "SendReq"
            /\ log[i - 1].end = (log[i].kind # "SendReqMore")

\* C1 witness: the engine went round the machine (a request with a body, its
\* response, back to Ready) and on into the second request
C1_Witness ==
  /\ \E k \in 1 .. Len(StateLog) : StateLog[k].kind = "ChunkEnd"
  /\ \E k \in 1 .. Len(StateLog) : StateLog[k].kind = "ReadZeroReuse"
  /\ \E k \in 1 .. Len(StateLog) : StateLog[k].seq = 1

\* C2: Closed is absorbing: from a state where Inner.state is Closed, no step
\* (engine poll, send_request, send_data, ready, ResponseFuture poll, body
\* read) changes state or cur_seq, and none reads or writes the transport.
C2_ClosedAbsorbing ==
  [][inner.state = "Closed"
       => /\ inner'.state = "Closed"
          /\ inner'.cur_seq = inner.cur_seq
          /\ log' = log
          /\ io'.rxAvail = io.rxAvail]_vars

\* C2 witness: Closed on an error, and since then the first ResponseFuture
\* was polled, a second request was sent and its handles were used
C2_Witness ==
  /\ inner.state = "Closed"
  /\ rf[0].st = "ErrRemote"
  /\ inner.next_seq = 2
  /\ rf[1].st = "ErrRemote"
  /\ ss[1].st = "Gone"

C4_CurSeq ==
  inner.cur_seq =
    Cardinality({i \in 1 .. Len(log) :
                   log[i].t = "s" /\ log[i].from = "RecvBody" /\ log[i].to = "Ready"})

\* C4 witness: cur_seq advanced, and the connection closed on the request after
C4_Witness ==
  /\ inner.cur_seq = 1
  /\ inner.state = "Closed"
  /\ \E i \in 1 .. Len(log) : log[i].t = "s" /\ log[i].seq = 1 /\ log[i].to = "Closed"

\* C6: what the reads of a response body returned, concatenated, is the body
\* the peer sent after the terminator (no byte lost, duplicated, reordered or
\* invented): at every moment a prefix of it, and all of it, up to the
\* limiter's end, once the body has reported its end.
C6_BodyExact ==
  \A s \in Seqs :
    /\ IsPrefix(rs[s].got, BodyBytes)
    /\ rs[s].is_finished /\ rs[s].limiter.kind = "ContentLength" /\ inner.error = "None"
         => rs[s].got = Take(BodyBytes, rs[s].limiter.limit)

\* C5: in the keep-alive sequence, under fair scheduling, both
\* ResponseFutures eventually resolve with a response and cur_seq, having gone
\* from 0 to 1 when the first body was drained, reaches 2.
C5_KeepAlive ==
  <>(rf[0].st = "Ok" /\ rf[1].st = "Ok" /\ inner.cur_seq = 2)

\* the engine, polled now on a transport that neither takes nor fails
EngineNow == EngineRun(0, FALSE)
ClosedOnError == inner.state = "Closed" /\ inner.error # "None"

\* C7: once an engine step had an IO error, state is Closed and the error is
\* kept; from then on a poll of the engine returns an error, and a poll of a
\* ResponseFuture, a SendStream::ready and a SendStream::send_data of any seq
\* return the error made of the stored one and enqueue nothing.
C7_StoredError ==
  /\ (\E i \in 1 .. Len(log) : log[i].kind = "IoError") => ClosedOnError
  /\ ClosedOnError =>
       /\ EngineNow.ret = "Err" /\ EngineNow.inner = inner
       /\ \A s \in Seqs :
            /\ rf[s].st \in {"Idle", "Pending"}
                 => ResponseFuture_poll(inner, s) = [res |-> "ErrRemote", inner |-> inner]
            /\ ss[s].st \in {"Idle", "Readying"}
                 => poll_can_send_data(inner, s) = [res |-> "ErrRemote", inner |-> inner]
            /\ ss[s].st = "Idle"
                 => \A end \in BOOLEAN :
                      send_data(inner, s, ChunkBytes(s, ss[s].sent + 1, 1), end)
                        = [res |-> "ErrRemote", inner |-> inner]

\* C7, the stream still queued: the connection is closed on an IO error, and
\* send_data of the stream of a request the engine has not come to returns Ok
C7_QueuedSendOk ==
  /\ ClosedOnError
  /\ \E s \in Seqs :
       /\ ss[s].st = "Idle" /\ inner.cur_seq < s
       /\ send_data(inner, s, ChunkBytes(s, ss[s].sent + 1, 1), TRUE).res = "Ok"

\* C8: a body that ended with reuse_conn = false left the engine Closed with
\* no error stored, and of a request sent after the one that body answered,
\* every poll of its ResponseFuture and of its ready() returned (with an
\* error): none panicked.
C8_CleanClose ==
  /\ (\E i \in 1 .. Len(log) : log[i].kind = "ReadZeroClose")
       => inner.state = "Closed" /\ inner.error = "None"
  /\ \A s \in Seqs : s > inner.cur_seq => rf[s].st # "Panic" /\ ss[s].st # "Panic"

\* C9: a ResponseFuture that resolved with the error of a head that does not
\* parse left the connection Closed.
C9_ParseErrorCloses ==
  \A s \in Seqs : rf[s].st = "ErrParse" => inner.state = "Closed"

\* C10: for the SendStream of a request sent with end = false, a poll of
\* ready() is Pending while the engine has not reached SendBody for its seq
\* (the requests before it unfinished, or its own head unwritten in Ready),
\* and Ok once the engine is in SendBody for its seq with no chunk of it queued.
C10_ReadyAwaitsSendBody ==
  \A s \in Seqs :
    ss[s].st \in {"Idle", "Readying"} /\ inner.state # "Closed" =>
      /\ inner.cur_seq < s \/ (inner.cur_seq = s /\ inner.state = "Ready")
           => poll_can_send_data(inner, s).res = "Pending"
      /\ inner.cur_seq = s /\ inner.state = "SendBody"
            /\ get_task(inner.tasks, s, "SendBody") = 0
           => poll_can_send_data(inner, s).res = "Ok"

\* C10, the stream still queued: ready() of the stream of a request the engine
\* has not come to returns Ok
C10_QueuedReadyOk ==
  \E s \in Seqs :
    /\ ss[s].st = "Idle" /\ inner.cur_seq < s /\ inner.state # "Closed"
    /\ poll_can_send_data(inner, s).res = "Ok"

\* the last byte of a chunk of seq submitted with end = false is written
ChunkMoreWritten(seq) ==
  \E i \in 1 .. Len(log) :
    log[i].t = "w" /\ log[i].kind = "SendBody" /\ log[i].seq = seq
      /\ log[i].fin /\ ~log[i].end

\* C11: once the engine has written all of a chunk submitted with end = false,
\* a producer pending in ready() is, under fair scheduling, eventually
\* resolved Ok (its stream is back in its hands for a further send_data).
C11_Backpressure ==
  \A s \in Seqs :
    (ChunkMoreWritten(s) /\ ss[s].st = "Readying") ~> (ss[s].st = "Idle")

\* the bytes the engine wrote for the request seq, in the order written
Written(seq) == SelectSeq(log, LAMBDA x : x.t = "w" /\ x.seq = seq)

\* C12: what the engine wrote for a request is its head, then its chunks in
\* the order of the send_data calls, each byte once: the head's bytes come
\* first, a chunk's bytes follow one another after a payload that was written
\* to its end, and no byte is written twice or out of order (the bytes of a
\* request are numbered in the order they were submitted).
C12_WrittenOnce ==
  \A s \in Seqs :
    /\ \A i \in 1 .. Len(Written(s)) :
         /\ i <= HeadLen => Written(s)[i].kind = "SendReq" /\ Written(s)[i].b = HeadBytes(s)[i]
         /\ i > HeadLen => Written(s)[i].kind = "SendBody"
         /\ i > HeadLen =>
              \/ Written(s)[i - 1].fin
              \/ Written(s)[i].b = Written(s)[i - 1].b + 1
    /\ \A i, j \in 1 .. Len(Written(s)) : i < j => Written(s)[i].b < Written(s)[j].b

\* C13: for a response that is not chunked and whose Content-Length is a
\* number N, the limiter selected is the content-length limiter with limit N.
C13_ContentLengthLimiter ==
  call.op = "from_res"
    /\ call.arg.res.transfer_encoding # Word("chunked")
    /\ call.arg.res.content_length.num
    => call.ret = [kind |-> "ContentLength", limit |-> call.arg.res.content_length.n,
                   total |-> 0]

\* C14: for a response that is not chunked and has no Content-Length that is
\* a number, the limiter selected is until-EOF; and the chunked decoder is
\* selected only for Transfer-Encoding: chunked.
C14_UntilEndLimiter ==
  call.op = "from_res" =>
    /\ call.arg.res.transfer_encoding # Word("chunked") /\ ~call.arg.res.content_length.num
         => call.ret.kind = "UntilEnd"
    /\ call.ret.kind = "Chunked" => call.arg.res.transfer_encoding = Word("chunked")

\* C15: the connection is offered for reuse exactly when the request has no
\* Connection: close, the response has no Connection: close, and the response
\* has a Content-Length or is chunked.
C15_KeepAliveDecision ==
  call.op = "keep_alive" =>
    call.ret = (/\ call.arg.req.connection \notin {Word("close"), Word("Close")}
                /\ call.arg.res.connection \notin {Word("close"), Word("Close")}
                /\ \/ call.arg.res.content_length.has
                   \/ call.arg.res.transfer_encoding = Word("chunked"))

\* the body bytes of the response seq the engine has taken from the transport
BodyBytesRead(seq) ==
  Cardinality({i \in 1 .. Len(log) :
                 log[i].t = "r" /\ log[i].kind = "RecvBody" /\ log[i].seq = seq})

\* C16, the count: a body limited by Content-Length L has delivered at most L
\* bytes, and the limiter has counted at most L
ContentLengthAtMost(s) ==
  Len(rs[s].got) <= rs[s].limiter.limit /\ rs[s].limiter.total <= rs[s].limiter.limit

\* C16, after the limit: once L bytes are delivered, a read of any size
\* returns 0 and leaves Inner as it is (no task enqueued, nothing asked of
\* the engine)
ContentLengthThenZero(s) ==
  Len(rs[s].got) = rs[s].limiter.limit =>
    \A n \in 1 .. BUF_SIZE :
      /\ BodyReader_poll_read(inner, rs[s], s, n).poll = "Ready"
      /\ BodyReader_poll_read(inner, rs[s], s, n).data = <<>>
      /\ BodyReader_poll_read(inner, rs[s], s, n).inner = inner

\* C16, exactly L: a body that ended without a transport error, the engine
\* having taken L or more body bytes from the peer, delivered L bytes
ContentLengthExact(s) ==
  rs[s].is_finished /\ inner.error = "None" /\ BodyBytesRead(s) >= rs[s].limiter.limit
    => Len(rs[s].got) = rs[s].limiter.limit

\* C16: a body limited by Content-Length L never delivers more than L bytes,
\* returns 0 on every read after L bytes without asking for more, and
\* delivers exactly L bytes when the peer supplied at least L.
C16_ContentLength ==
  \A s \in Seqs :
    rs[s].st = "Open" /\ rs[s].limiter.kind = "ContentLength" =>
      ContentLengthAtMost(s) /\ ContentLengthThenZero(s) /\ ContentLengthExact(s)

C18_SecondResolveIsError ==
  \A s \in Seqs :
    rs[s].st = "Open" /\ rs[s].resolved # "None"
      => \A kind \in ContentEncodings :
           /\ resolve_deferred(rs[s], kind).ret = "Err"
           /\ resolve_deferred(rs[s], kind).body.codec = rs[s].resolved

\* the second half of C18 alone: once a resolve_deferred call has chosen a
\* codec, a later call of any kind leaves that codec in place
FirstCodecStays ==
  \A s \in Seqs :
    rs[s].resolved # "None"
      => /\ rs[s].codec = rs[s].resolved
         /\ \A kind \in ContentEncodings :
              resolve_deferred(rs[s], kind).body.codec = rs[s].resolved

\* a body on which resolve_deferred was called again after a call chose a codec
SecondResolveDone ==
  \E s \in Seqs : rs[s].resolved # "None" /\ rs[s].resolves >= 2

\* a call on a Deferred codec that panics and hands back Inner and the
\* reader r as they were; the body's has_read flag apart, which Body::poll_read
\* sets before it reaches the codec
FailsUntouched(q, r) ==
  /\ q.poll = "Panic"
  /\ q.data = <<>>
  /\ q.inner = inner
  /\ [q.r EXCEPT !.has_read = r.has_read] = r

\* C19: on a Body whose codec is still Deferred, poll_read, poll_fill_buf and
\* consume each fail at the call (a panic), deliver no byte and take nothing
\* from the source (Inner, the limiter and the read buffer stay as they
\* were); a Body whose codec is Deferred has delivered no byte and holds none.
C19_DeferredReadFails ==
  \A s \in Seqs :
    rs[s].codec = "Deferred"
      => /\ rs[s].got = <<>> /\ rs[s].read_buf = <<>> /\ rs[s].limiter.total = 0
         /\ get_task(inner.tasks, s, "RecvBody") = 0
         /\ \A n \in 0 .. BUF_SIZE :
              /\ FailsUntouched(Body_poll_read(inner, rs[s], s, n), rs[s])
              /\ FailsUntouched(BodyCodec_consume(inner, rs[s], n), rs[s])
         /\ FailsUntouched(BodyCodec_poll_fill_buf(inner, rs[s], s), rs[s])

\* a read has failed on a Deferred body while the body's bytes were there to
\* be taken from the transport
C19_Witness ==
  \E s \in Seqs :
    /\ rs[s].codec = "Deferred" /\ rs[s].st = "Panic" /\ rs[s].has_read
    /\ io.rxAvail # <<>>

\* C20: whenever into_connection has returned the Connection of an H1 body,
\* the body's is_finished flag is true; a body not yet finished is read until
\* a read returns 0 first (a read of the drain ends pending, or gives bytes
\* and the drain goes on, or gives 0 and the body is finished), and a read
\* error in the drain
\* makes into_connection return the error, not a Connection.
C20_DrainBeforeConnection ==
  \A s \in Seqs :
    /\ rs[s].st = "Connection" => rs[s].is_finished
    /\ rs[s].st \in {"Open", "Draining"} /\ rs[s].codec # "Deferred" /\ ~rs[s].is_finished
         => /\ Body_into_connection(inner, rs[s], s, rs[s].st = "Draining", TRUE).res = "Err"
            /\ LET d == Body_into_connection(inner, rs[s], s, rs[s].st = "Draining", FALSE)
               IN /\ d.res \in {"Pending", "More", "Ok"}
                  /\ d.res = "Ok" => d.r.is_finished /\ d.r.read_buf = <<>>

\* into_connection has returned the Connection of a body that the caller had
\* read in part only, and never to a read of 0
C20_Witness ==
  \E s \in Seqs :
    /\ rs[s].st = "Connection" /\ rs[s].is_finished
    /\ rs[s].zeros = 0
    /\ rs[s].limiter.kind = "ContentLength"
    /\ rs[s].got # <<>> /\ Len(rs[s].got) < rs[s].limiter.limit

\* into_connection has returned the error of a read of its drain
C20_DrainFailed ==
  \E s \in Seqs : rs[s].st = "Err" /\ ~rs[s].is_finished

\* C21: into_connection on a body that is not a response body (its source
\* empty, a synchronous reader or an asynchronous reader) returns an error
\* and no Connection, whatever the body's codec is: Deferred, Plain or gzip.
C21_RequestBodyNoConnection ==
  call.op = "into_connection" /\ call.arg.imp \in RequestImps
    => call.ret = "Err"

\* into_connection was called on a request body
C21_Called ==
  call.arg.imp \in RequestImps /\ call.op = "into_connection"

\* the part of C21 that holds: into_connection on a request body never yields
\* a Connection, and returns the error once the codec is resolved
RequestBodyNeverConnection ==
  call.arg.imp \in RequestImps /\ call.arg.st = "Open"
    => /\ Body_into_connection_of(call.arg) # "Ok"
       /\ call.arg.codec # "Deferred" => Body_into_connection_of(call.arg) = "Err"

\* C27: for an H2 body read through caller buffers of any sizes, the bytes
\* delivered are, in order, the bytes of the chunks that poll_data has
\* returned, less those still held (in the read buffer, then in the one
\* leftover slot); poll_data is never called while bytes are held; and when
\* the body has ended and nothing is held, the bytes delivered are exactly
\* the chunks returned.
C27_H2ChunksInOrder ==
  call.arg.imp = "Http2"
    => /\ call.arg.got \o call.arg.read_buf \o call.arg.leftover = call.arg.fed
       /\ ~call.arg.early
       /\ Len(call.arg.read_buf) <= BUF_SIZE
       /\ call.arg.is_finished /\ call.arg.read_buf = <<>>
            => call.arg.leftover = <<>> /\ call.arg.got = call.arg.fed

\* an H2 body of chunks longer than the read buffer, each split into the
\* leftover slot, was read to its end
C27_Witness ==
  /\ call.arg.imp = "Http2" /\ call.arg.is_finished
  /\ call.op = "read" /\ call.ret = <<>>
  /\ call.arg.got = call.arg.fed
  /\ Len(call.arg.got) = MaxChunk * MaxChunks2
  /\ MaxChunk > BUF_SIZE

\* the caller gave up the response of seq before the end of its body: it
\* dropped the ResponseFuture, or the Body with bytes of it still unread
DroppedEarly(seq) ==
  \/ rf[seq].st = "Dropped"
  \/ rs[seq].st = "Dropped" /\ rs[seq].limiter.total < rs[seq].limiter.limit

\* C22: once the caller has dropped the Body of an H1 response before its
\* end (or its ResponseFuture), the engine, under fair scheduling, eventually
\* is Closed: it does not stay in Waiting or RecvBody forever.
C22_DropCloses ==
  \A s \in Seqs : DroppedEarly(s) ~> (inner.state = "Closed")

\* a request is queued behind one whose response the caller gave up
C22_QueuedBehindDrop ==
  DroppedEarly(0) /\ inner.cur_seq = 0 /\ get_task(inner.tasks, 1, "SendReq") # 0

\* a task of the request seq is queued though cur_seq has gone past seq
StaleTask(seq) ==
  inner.cur_seq > seq /\ \E i \in 1 .. Len(inner.tasks) : inner.tasks[i].seq = seq

\* C23: once cur_seq has gone past N, every task with seq N is, under fair
\* scheduling, eventually removed from the queue: no task with seq < cur_seq
\* stays queued.
C23_StalePruned ==
  \A s \in Seqs : StaleTask(s) ~> ~StaleTask(s)

\* the case of C23 in which the caller has dropped the Body of the request
StalePrunedAfterDrop ==
  \A s \in Seqs : (StaleTask(s) /\ rs[s].st = "Dropped") ~> ~StaleTask(s)

\* cur_seq has gone past request 0, whose Body the caller has dropped, and a
\* task of request 0 that is not marked complete is queued
C23_StaleQueued ==
  /\ StaleTask(0) /\ rs[0].st = "Dropped"
  /\ \E i \in 1 .. Len(inner.tasks) : inner.tasks[i].seq = 0 /\ ~inner.tasks[i].complete

\* cur_seq and state as they were when the entry i of the history was made:
\* the number of RecvBody->Ready steps before it, and where the last state
\* change before it led
CurSeqAt(i) ==
  Cardinality({j \in 1 .. (i - 1) :
                 log[j].t = "s" /\ log[j].from = "RecvBody" /\ log[j].to = "Ready"})
StateAt(i) ==
  LET changes == {j \in 1 .. (i - 1) : log[j].t = "s"}
  IN IF changes = {} THEN "Ready"
     ELSE log[CHOOSE j \in changes : \A k \in changes : k <= j].to

Suspended(seq) ==
  \/ rf[seq].st = "Pending" /\ ~rf[seq].woken
  \/ ss[seq].st = "Readying" /\ ~ss[seq].woken

\* C25: when the engine is Closed (after a transport error or a clean close)
\* no ResponseFuture and no SendStream::ready is left suspended: the step
\* that closed the engine has woken every handle that was pending.
C25_ClosedWakesPending ==
  inner.state = "Closed" => \A s \in Seqs : ~Suspended(s)

\* a ResponseFuture was pending when the engine was closed by a transport
\* error
C25_PendingAtClose ==
  /\ inner.state = "Closed" /\ inner.error # "None"
  /\ \E s \in Seqs : rf[s].st = "Pending"

\* the send phase of the request seq is complete for the caller: the request
\* or a chunk of it was submitted with end = true (the task is queued still,
\* or bytes of it are in the history)
SendPhaseComplete(seq) ==
  \/ \E i \in 1 .. Len(inner.tasks) :
       inner.tasks[i].seq = seq /\ inner.tasks[i].kind \in {"SendReq", "SendBody"}
         /\ inner.tasks[i].end
  \/ \E i \in 1 .. Len(log) : log[i].t = "w" /\ log[i].seq = seq /\ log[i].end

\* C26: send_data on a stream whose send phase is complete returns an error
\* and enqueues nothing, whether or not the engine has written the final
\* chunk, and whether the stream's seq is cur_seq or is queued behind it.
C26_SendAfterEnd ==
  \A s \in Seqs :
    SendPhaseComplete(s)
      => \A n \in 1 .. MaxData, end \in BOOLEAN :
           /\ send_data(inner, s, ChunkBytes(s, MaxChunks + 1, n), end).res # "Ok"
           /\ send_data(inner, s, ChunkBytes(s, MaxChunks + 1, n), end).inner = inner

\* the final chunk of a request is submitted and the engine has not written
\* it yet
C26_FinalChunkQueued ==
  \E i \in 1 .. Len(inner.tasks) :
    /\ inner.tasks[i].kind = "SendBody" /\ inner.tasks[i].end
    /\ inner.tasks[i].seq = inner.cur_seq /\ inner.state = "SendBody"

\* the part of C26 that holds: once the engine has written the final chunk
\* of the current request, or has gone past the request, send_data on its
\* stream returns an error and enqueues nothing
SendAfterEndWritten ==
  \A s \in Seqs :
    /\ SendPhaseComplete(s)
    /\ \/ inner.cur_seq > s
       \/ inner.cur_seq = s /\ inner.state # "SendBody"
    => \A n \in 1 .. MaxData, end \in BOOLEAN :
         /\ send_data(inner, s, ChunkBytes(s, MaxChunks + 1, n), end).res # "Ok"
         /\ send_data(inner, s, ChunkBytes(s, MaxChunks + 1, n), end).inner = inner

\* the caller supplied a header named host, in any case
CallerHasHost(req) == \E i \in 1 .. Len(req.headers) : is_name(req.headers[i], "host")

\* lines of a head that name the host
HostLines(head) == SelectSeq(head, LAMBDA l : Len(l) = 3 /\ eq_ignore_ascii_case(l[1], "host"))

\* the request line of a: METHOD path?query HTTP/1.1
IsRequestLine(l, a) ==
  /\ Len(l) = 5
  /\ l[1] = a.req.method /\ l[2] = " " /\ l[3] = a.url.path /\ l[5] = " HTTP/1.1"
  /\ IF a.url.query.some \/ a.req.query # "" THEN Len(l[4]) >= 2 /\ l[4][1] = "?"
     ELSE l[4] = <<>>

\* the Host header is added exactly when the caller supplied none, and is
\* never next to a caller-supplied one
HostAsClaimed(head, a) ==
  IF CallerHasHost(a.req)
  THEN HostLines(head) = HostLines([i \in 1 .. Len(a.req.headers) |-> HeaderLine(a.req.headers[i])])
  ELSE Len(head) >= 2 /\ head[2] = HostLine(a.url.host) /\ Len(HostLines(head)) = 1

\* every caller header once, as set and in insertion order, after the Host line
CallerHeadersAsClaimed(head, a) ==
  LET from == IF CallerHasHost(a.req) THEN 1 ELSE 2
      n == Len(a.req.headers)
  IN /\ Len(head) >= from + n + 1
     /\ \A i \in 1 .. n : head[from + i] = HeaderLine(a.req.headers[i])
     /\ \A j \in (from + n + 1) .. (Len(head) - 1) :
          \A i \in 1 .. n : head[j] # HeaderLine(a.req.headers[i])

HeadAsClaimed(head, a) ==
  /\ Len(head) >= 2
  /\ IsRequestLine(head[1], a)
  /\ HostAsClaimed(head, a)
  /\ CallerHeadersAsClaimed(head, a)
  /\ head[Len(head)] = EmptyLine

\* C28: the request head that is written is the request line
\* "METHOD path?query HTTP/1.1", then a Host header exactly when the caller
\* supplied no header named host in any case, then every caller header once, as
\* set and in insertion order, then the empty line; a Host header of the
\* library is never next to one of the caller.
C28_RequestHead ==
  call.op \in {"send_prelude", "conn_prelude"} => HeadAsClaimed(call.ret, call.arg)

\* a head has been written by send_prelude in which a header the caller set is missing
C28_CallerHeaderMissing ==
  /\ call.op = "send_prelude"
  /\ \E i \in 1 .. Len(call.arg.req.headers) :
       \A j \in 1 .. Len(call.ret) : call.ret[j] # HeaderLine(call.arg.req.headers[i])

\* the Host header is as claimed in every head, and the head of conn.rs is as
\* claimed in whole; send_prelude's is as claimed whenever the first header
\* named expect says 100-continue or no header named expect does
HeadOtherwiseAsClaimed ==
  /\ call.op \in {"send_prelude", "conn_prelude"} =>
       /\ IsRequestLine(call.ret[1], call.arg)
       /\ HostAsClaimed(call.ret, call.arg)
       /\ call.ret[Len(call.ret)] = EmptyLine
  /\ call.op = "conn_prelude" => HeadAsClaimed(call.ret, call.arg)
  /\ call.op = "send_prelude"
       /\ (LET expect == get_header(call.arg.req.headers, "expect")
           IN expect.some => eq_ignore_ascii_case(expect.value, "100-continue"))
       => HeadAsClaimed(call.ret, call.arg)

\* the headers Unit::new has added after the caller's and the cookies
AddedHeaders(unit, a) == Drop(unit.headers, Len(a.req.headers) + Len(a.cookies))

\* methods that imply a body
ImpliesBody(method) == method \in {"POST", "PUT", "PATCH"}

\* the length header C29 says the library adds
LengthDefault(a) ==
  IF has_header(a.req.headers, "content-length") \/ has_header(a.req.headers, "transfer-encoding")
  THEN <<>>
  ELSE IF a.body.some THEN <<Header("Content-Length", Decimal(a.body.n))>>
  ELSE IF ImpliesBody(a.req.method) THEN <<Header("Transfer-Encoding", "chunked")>>
  ELSE <<>>

\* C29: Unit::new adds "Content-Length: N" exactly when the caller set neither
\* Content-Length nor Transfer-Encoding and the body length N is known; it adds
\* "Transfer-Encoding: chunked" when the caller set neither, the length is
\* unknown and the method is POST, PUT or PATCH; and it adds no Content-Length
\* to a request that is sent chunked.
C29_LengthDefaults ==
  call.op = "Unit_new" =>
    /\ AddedHeaders(call.ret, call.arg) = LengthDefault(call.arg)
    /\ call.ret.is_chunked => ~has_header(AddedHeaders(call.ret, call.arg), "content-length")

\* a POST with no headers and a body of unknown length has been made a unit,
\* and no header was added
C29_NothingAdded ==
  /\ call.op = "Unit_new"
  /\ call.arg.req.method = "POST" /\ call.arg.req.headers = <<>> /\ ~call.arg.body.some
  /\ AddedHeaders(call.ret, call.arg) = <<>>

\* the Content-Length part: it is added exactly when the caller set no
\* Content-Length, set no Transfer-Encoding with a value, and the length is
\* known; nothing else is ever added; a chunked request gets none
ContentLengthDefault ==
  call.op = "Unit_new" =>
    /\ AddedHeaders(call.ret, call.arg) =
         (IF ~has_header(call.arg.req.headers, "content-length")
               /\ ~call.ret.is_chunked /\ call.arg.body.some
          THEN <<Header("Content-Length", Decimal(call.arg.body.n))>> ELSE <<>>)
    /\ call.ret.is_chunked => ~has_header(AddedHeaders(call.ret, call.arg), "content-length")
    /\ call.ret.is_chunked = (\E i \in 1 .. Len(call.arg.req.headers) :
          /\ is_name(call.arg.req.headers[i], "transfer-encoding")
          /\ call.arg.req.headers[i].value # ""
          /\ \A j \in 1 .. (i - 1) : ~is_name(call.arg.req.headers[j], "transfer-encoding"))

\* C30: into_reader selects the reader from the response headers: with
\* "Transfer-Encoding: chunked" the chunked decoder, whatever Content-Length
\* says; otherwise with a Content-Length a reader limited to that many bytes,
\* however many the server sends; with no length header the stream itself,
\* read until the server ends it.
C30_ReaderSelected ==
  call.op = "into_reader" =>
    LET res == call.arg.res
        chunked == res.transfer_encoding = Word("chunked")
        len == ParseU64(res.content_length)
    IN /\ chunked => call.ret.kind = "Chunked"
       /\ ~chunked /\ len.some =>
            /\ call.ret.kind = "LimitedRead" /\ call.ret.limit = len.n
            /\ call.got <= len.n
            /\ call.zero => call.got = Min(len.n, call.arg.sent)
       /\ ~res.transfer_encoding.has /\ ~res.content_length.has =>
            /\ call.ret.kind = "Stream"
            /\ call.zero => call.got = call.arg.sent

\* a response with "Transfer-Encoding: gzip" and a Content-Length has been given the chunked decoder
C30_ChunkedForGzip ==
  /\ call.op = "into_reader"
  /\ call.arg.res.transfer_encoding = Word("gzip")
  /\ ParseU64(call.arg.res.content_length).some
  /\ call.ret.kind = "Chunked"

\* the selection as the code makes it: the chunked decoder for any
\* Transfer-Encoding with a value; otherwise LimitedRead for a Content-Length
\* that parses, never delivering more than the limit and exactly the limit when
\* the server sends that many or more; otherwise the stream, to its end
ReaderSelectedByValue ==
  call.op = "into_reader" =>
    LET res == call.arg.res
        enc == res.transfer_encoding
        chunked == enc.has /\ (enc.num \/ enc.word # "")
        len == ParseU64(res.content_length)
    IN /\ chunked => call.ret.kind = "Chunked"
       /\ ~chunked /\ len.some =>
            /\ call.ret.kind = "LimitedRead" /\ call.ret.limit = len.n
            /\ call.got <= len.n /\ call.got = call.ret.position
            /\ call.zero => call.got = Min(len.n, call.arg.sent)
       /\ ~chunked /\ ~len.some =>
            /\ call.ret.kind = "Stream"
            /\ call.zero => call.got = call.arg.sent

\* the same letters in the other case
SwapCase(s) ==
  [i \in 1 .. Len(s) |-> IF s[i] = "a" THEN "A" ELSE IF s[i] = "A" THEN "a" ELSE s[i]]

\* s is line cut at its first colon: before, and after with the whitespace at
\* both ends taken off
CutAtFirstColon(line, before, after) ==
  /\ \A i \in 1 .. Len(before) : before[i] # ":"
  /\ Len(line) > Len(before) /\ SubSeq(line, 1, Len(before)) = before
  /\ line[Len(before) + 1] = ":"
  /\ after = <<>> \/ (~is_whitespace(after[1]) /\ ~is_whitespace(after[Len(after)]))
  /\ \E l \in 0 .. Len(line), r \in 0 .. Len(line) :
       /\ Len(before) + 1 + l + Len(after) + r = Len(line)
       /\ SubSeq(line, Len(before) + 2 + l, Len(before) + 1 + l + Len(after)) = after
       /\ \A i \in (Len(before) + 2) .. (Len(before) + 1 + l) : is_whitespace(line[i])
       /\ \A i \in (Len(line) - r + 1) .. Len(line) : is_whitespace(line[i])

XHeaders(headers) == SelectSeq(headers, LAMBDA h : starts_with_x(h.name))

\* the last header of a list with a name equal to name, under the comparison same
LastNamed(headers, name, same(_, _)) ==
  LET named == SelectSeq(headers, LAMBDA h : same(h.name, name))
  IN named[Len(named)]

\* C39: after any add_header calls the list holds at most one header for each
\* name that does not start with x-, names compared in any case as is_name and
\* get_header compare them, and it is the one added last; the headers whose
\* name starts with x- are all there, in the order they were added.
C39_OnePerName ==
  call.op = "add_header" =>
    /\ \A i, j \in 1 .. Len(call.headers) :
         i < j /\ ~starts_with_x(call.headers[i].name)
           => ~is_name(call.headers[j], call.headers[i].name)
    /\ \A i \in 1 .. Len(call.headers) :
         ~starts_with_x(call.headers[i].name)
           => call.headers[i] = LastNamed(call.added, call.headers[i].name, eq_ignore_ascii_case)
    /\ XHeaders(call.headers) = XHeaders(call.added)

\* Host and then host have been added, and the list holds both
C39_BothCasesKept ==
  /\ call.op = "add_header"
  /\ call.added = <<Header("Host", "a.test"), Header("host", "b.test")>>
  /\ call.headers = call.added

\* with names compared exactly, the list holds at most one header for each
\* name that does not start with x-, the one added last, and every header
\* whose name starts with x- in the order added
OnePerExactName ==
  call.op = "add_header" =>
    /\ \A i, j \in 1 .. Len(call.headers) :
         i < j /\ ~starts_with_x(call.headers[i].name)
           => call.headers[j].name # call.headers[i].name
    /\ \A i \in 1 .. Len(call.headers) :
         ~starts_with_x(call.headers[i].name)
           => call.headers[i] = LastNamed(call.added, call.headers[i].name, =)
    /\ XHeaders(call.headers) = XHeaders(call.added)

\* the buffer of the RecvRes task of seq, <<>> when none is queued
RecvResBuf(seq) ==
  LET i == get_task(inner.tasks, seq, "RecvRes")
  IN IF i = 0 THEN <<>> ELSE inner.tasks[i].buf

\* buf ends with the terminator and holds none before that
EndsWithFirstTerminator(buf) ==
  /\ Len(buf) >= Len(END_OF_HEADER)
  /\ SubSeq(buf, Len(buf) - 3, Len(buf)) = END_OF_HEADER
  /\ ~HasTerminator(SubSeq(buf, 1, Len(buf) - 1))

\* C32: the engine is in RecvBody, not Waiting, exactly when the bytes it has
\* received for the response contain CR LF CR LF, whatever bytes the peer
\* sends and however they are split over reads; the buffer then ends with the
\* terminator and holds no byte after it.
C32_TerminatorFound ==
  get_task(inner.tasks, 0, "RecvRes") # 0 /\ inner.cur_seq = 0 =>
    /\ inner.state = "Waiting" => ~HasTerminator(RecvResBuf(0))
    /\ inner.state = "RecvBody" => EndsWithFirstTerminator(RecvResBuf(0))

\* the engine is still Waiting with CR CR LF CR LF received
C32_TerminatorMissed ==
  /\ inner.state = "Waiting" /\ inner.cur_seq = 0
  /\ RecvResBuf(0) = <<CR, CR, LF, CR, LF>>

\* the engine is in RecvBody only with a buffer that ends with its first
\* terminator: no terminator is found where there is none, and no byte after
\* it is taken
TerminatorFoundSound ==
  get_task(inner.tasks, 0, "RecvRes") # 0 /\ inner.cur_seq = 0 /\ inner.state = "RecvBody"
    => EndsWithFirstTerminator(RecvResBuf(0))

\* send_request has returned the handles of seq
Submitted(seq) == rf[seq].st # "None"

\* C35: a send_request that fails to serialize leaves the shared state as it
\* was: every seq from cur_seq up to next_seq is that of a request whose
\* handles were returned and whose SendReq was enqueued, so the engine never
\* waits in Ready for a SendReq that was never submitted.
C35_FailedSendLeavesState ==
  \A seq \in Seqs : inner.cur_seq <= seq /\ seq < inner.next_seq => Submitted(seq)

\* the engine is suspended in Ready at a seq that was never submitted, with the
\* SendReq of the request after it queued
C35_WaitsBehindGap ==
  /\ inner.state = "Ready" /\ ~conn.woken /\ inner.conn_waker
  /\ ~Submitted(inner.cur_seq)
  /\ get_task(inner.tasks, inner.cur_seq + 1, "SendReq") # 0

\* a failing send_request enqueues nothing and wakes nothing
FailedSendEnqueuesNothing ==
  [][\A end \in BOOLEAN : SendRequest(end, FALSE)
       => inner'.tasks = inner.tasks /\ rf' = rf /\ ss' = ss /\ conn' = conn]_vars

\* the bytes the tasks of a queue have still to write
RECURSIVE QueuedBytes(_)
QueuedBytes(tasks) ==
  IF tasks = <<>> THEN 0
  ELSE (IF Head(tasks).kind \in {"SendReq", "SendBody"} THEN Len(Head(tasks).buf) ELSE 0)
         + QueuedBytes(Tail(tasks))

\* C37: a poll of the engine returns after finitely many task steps: on a
\* transport that takes more bytes than all the tasks of the queue hold, the
\* poll does not end with a write still waiting for the transport, which is
\* how a poll ends that runs one task again and again.
C37_PollReturns ==
  [][\A cap \in 0 .. MaxTx :
       ConnectionPoll(cap, FALSE) /\ cap > QueuedBytes(inner.tasks) => ~conn'.woken]_vars

\* the engine has written a chunk twice in SendBody and its poll was ended by the transport
C37_SameTaskAgain ==
  /\ inner.state = "SendBody" /\ conn.woken
  /\ \E i, j \in 1 .. Len(log) :
       i < j /\ log[i].t = "w" /\ log[j].t = "w" /\ log[i].kind = "SendBody"
         /\ log[i].b = log[j].b /\ log[i].seq = log[j].seq
  /\ QueuedBytes(inner.tasks) > 0

\* without a SendBody task in the queue a poll on a transport with room for
\* all queued bytes never ends waiting to write
PollReturnsWithoutChunk ==
  [][\A cap \in 0 .. MaxTx :
       ConnectionPoll(cap, FALSE) /\ cap > QueuedBytes(inner.tasks)
         /\ (\A i \in 1 .. Len(inner.tasks) : inner.tasks[i].kind # "SendBody" \/ inner.tasks[i].end)
         => ~conn'.woken]_vars

\* the queue holds a task the engine would run now
EligibleQueued == task_for_state(inner.tasks, inner.cur_seq, inner.state) # 0

\* C36: no wake-up of the engine is lost: in no state is the engine suspended,
\* not waiting for the transport and not woken while the queue holds a task
\* eligible for (cur_seq, state); so a task enqueued after the engine returned
\* Pending for want of a task finds the engine's waker and wakes it.
C36_NoLostWakeup ==
  inner.state # "Closed" /\ EligibleQueued /\ io.ioWait = "none" => conn.woken

\* the engine has written a head and is in SendBody; the chunk it is to write
\* next is queued, no waker of the engine is left registered and the engine
\* is woken
C36_Witness ==
  /\ log # <<>> /\ inner.state = "SendBody"
  /\ EligibleQueued /\ io.ioWait = "none"
  /\ ~inner.conn_waker /\ conn.woken

\* every enqueue that finds the engine's waker registered takes it and wakes the engine
EnqueueWakes ==
  [][inner.conn_waker /\ Len(inner'.tasks) > Len(inner.tasks)
       => ~inner'.conn_waker /\ conn'.woken]_vars

\* two calls are each inside their initializer, each waiting in its set for
\* the cell the other is initializing
Deadlocked ==
  \E t, u \in Callers :
    /\ call.pc[t] = "set" /\ call.pc[u] = "set"
    /\ call.RUNTIME.state = "Running" /\ call.RUNTIME.by = t
    /\ call.HANDLE.state = "Running" /\ call.HANDLE.by = u

\* C40: concurrent first calls of spawn and block_on neither panic nor
\* deadlock, and create exactly one default runtime, whose handle is the one
\* in HANDLE, in every interleaving.
C40_OneRuntime ==
  /\ \A t \in Callers : call.pc[t] # "panic"
  /\ ~Deadlocked
  /\ call.created <= 1
  /\ call.RUNTIME.state = "Complete" /\ call.HANDLE.state = "Complete"
       => call.RUNTIME.value = call.HANDLE.value

\* a block_on and a spawn have each created a runtime and wait for each other
C40_BothWaiting ==
  /\ Deadlocked
  /\ call.created = 2
  /\ call.pc[<<"block_on", 1>>] = "set" /\ call.pc[<<"spawn", 1>>] = "set"

\* no call panics; a runtime is created a second time only by two calls that
\* then wait for each other; and the handle stored is that of the runtime stored
OneRuntimeUnlessDeadlocked ==
  /\ \A t \in Callers : call.pc[t] # "panic"
  /\ call.created <= 2
  /\ call.created = 2 =>
       \E t, u \in Callers :
         /\ call.pc[t] \in {"create", "set"} /\ call.pc[u] \in {"create", "set"}
         /\ call.RUNTIME.by = t /\ call.HANDLE.by = u
  /\ call.RUNTIME.state = "Complete" /\ call.HANDLE.state = "Complete"
       => call.RUNTIME.value = call.HANDLE.value


\* the most connect can be entered for one call: once, once per redirect, one retry
MostCalls == ConnParams_new("body").redirects + 2

\* C33: one call follows at most 5 redirects: every followed 3xx response with a
\* Location takes one from the remaining count, a 3xx response received at count 0
\* ends the call with TooManyRedirects (and nothing else does), and connect is
\* entered a bounded number of times whatever the server answers.
C33_RedirectsBounded ==
  call.op = "connect" =>
    /\ call.params.redirects + call.followed = ConnParams_new("body").redirects
    /\ call.params.redirects >= 0
    /\ call.calls = 1 + call.followed + call.retries
    /\ call.calls <= MostCalls
    /\ (call.pc = "done" /\ redirect(call.status) /\ call.remaining = 0
          => call.result = "TooManyRedirects")
    /\ (call.result = "TooManyRedirects"
          => call.followed = ConnParams_new("body").redirects /\ redirect(call.status))

\* C33 witness: five redirects were followed and the sixth ended the call
C33_Witness ==
  /\ call.op = "connect" /\ call.pc = "done"
  /\ call.followed = 5 /\ call.result = "TooManyRedirects"

\* C34: a call whose send failed on a pooled connection has retried exactly once
\* when it ends, with or without Expect: 100-continue; a send that failed on a
\* fresh connection ends the call; no call retries more than once.
C34_RetriedOnce ==
  call.op = "connect" =>
    /\ call.retries <= 1
    /\ (call.pc = "done" /\ call.failedPooled => call.retries = 1)
    /\ (call.failedFresh => call.pc \in {"expect", "done"})
    /\ (call.failedFresh /\ call.pc = "done" => call.result = "Io")

\* a send failed on a pooled connection of a request with Expect: 100-continue,
\* and the call ended with the error of the read that followed, without a retry
C34_EndedWithoutRetry ==
  /\ call.op = "connect" /\ call.pc = "done" /\ call.expect
  /\ call.failedPooled /\ call.retries = 0 /\ call.result = "Io"

\* what holds of the retry: at most one per call, none after a failure on a fresh
\* connection, and exactly one after a failure on a pooled connection unless the
\* request carries Expect: 100-continue
RetriedOnceWithoutExpect ==
  call.op = "connect" =>
    /\ call.retries <= 1
    /\ (call.pc = "done" /\ call.failedPooled /\ ~call.expect => call.retries = 1)
    /\ (call.failedFresh => call.pc \in {"expect", "done"})
    /\ (call.failedFresh /\ call.pc = "done" => call.result = "Io")
    /\ (call.retries = 1 => ~call.params.use_pooled /\ call.failedPooled)


\* the bytes a body's source has yet to give (RequestEmpty has no source)
ToCome(b) == IF b.imp = "RequestEmpty" THEN <<>> ELSE Flatten(b.src)

\* C38: a body is finished only when its source is at its end: is_finished is
\* never set, and a read into a buffer that is not empty never returns 0, while
\* bytes of the body are still to come from the source.
C38_FinishedAtEnd ==
  call.op \in {"none", "read", "resolve_deferred", "into_connection"} =>
    /\ (call.arg.is_finished => ToCome(call.arg) = <<>>)
    /\ (call.op = "read" /\ call.ret = <<>> => ToCome(call.arg) = <<>>)

\* poll_data returned a chunk of no bytes, the read returned 0 and the body is
\* finished, with a chunk of the H2 stream not yet delivered
C38_FinishedByEmptyChunk ==
  /\ call.op = "read" /\ call.ret = <<>>
  /\ call.arg.imp = "Http2" /\ call.arg.is_finished
  /\ call.arg.fed = <<>> /\ call.arg.got = <<>>
  /\ ToCome(call.arg) # <<>>

\* what holds: a body whose source is not an H2 stream is finished, and has a
\* read return 0, only at the end of its source
FinishedAtEndUnlessH2 ==
  call.op \in {"none", "read", "resolve_deferred", "into_connection"} =>
    /\ (call.arg.is_finished /\ ToCome(call.arg) # <<>> => call.arg.imp = "Http2")
    /\ (call.op = "read" /\ call.ret = <<>> /\ ToCome(call.arg) # <<>>
          => call.arg.imp = "Http2")


\* the body bytes the engine holds for seq
HeldFor(seq) ==
  Let(LAMBDA i : IF i = 0 THEN <<>> ELSE inner.tasks[i].buf,
      get_task(inner.tasks, seq, "RecvBody"))

\* the source of the RecvStream of seq is at its end: the length is used up, or
\* the engine has met the end of the body and holds no byte of it
SourceAtEnd(seq) ==
  \/ rs[seq].limiter.kind = "ContentLength" /\ rs[seq].limiter.limit = rs[seq].limiter.total
  \/ Let(LAMBDA i : i # 0 /\ inner.tasks[i].end /\ inner.tasks[i].buf = <<>>,
         get_task(inner.tasks, seq, "RecvBody"))

\* a read into an empty buffer finished the RecvStream: none of the two bytes
\* of the body was delivered, and the engine holds bytes of it
StreamFinishedByEmptyBuffer ==
  /\ rs[0].finished /\ rs[0].got = <<>> /\ HeldFor(0) # <<>>
  /\ rs[0].limiter.kind = "ContentLength" /\ rs[0].limiter.total = 0

\* a read of the RecvStream into a buffer that is not empty finishes it only
\* when its source is at its end
StreamReadsKeepEnd ==
  [][\A n \in 1 .. BUF_SIZE :
       ~rs[0].finished /\ RecvStreamRead(0, n) /\ rs'[0].finished => SourceAtEnd(0)]_vars

====
